---- MODULE Spec2Model ----
(***************************************************************************)
(* Boundary-matrix engine of the simplicial-complex application.           *)
(*                                                                         *)
(*  - filtration mode: the persistent homology worker (onmessage) builds   *)
(*    the Vietoris-Rips filtration of a point list, indexes the simplices  *)
(*    into columns, reduces the boundary matrix over GF(2), extracts the   *)
(*    birth-death pairs and rasterises the persistence image;              *)
(*  - static mode: SimplexDetails calls homologyGroups on the vertices,    *)
(*    the edges and the triangles of the edited complex.                   *)
(*                                                                         *)
(* Indices are zero-based as in the source; the i-th element of a source   *)
(* array a is a[i + 1] here.  Real numbers are fixed-point integers with   *)
(* Scale units to one pixel.                                               *)
(***************************************************************************)
EXTENDS Integers, Sequences, FiniteSets, TLC

VARIABLES
    mode,            \* "worker" (onmessage) or "static" (SimplexDetails)
    variant,         \* worker: "details" (raw weights) or "normalised" (weight / maxPersistence)
    pc,              \* position in the handler
    vertices,        \* worker: e.data, the point list; static: the vertex coordinates
    complex,         \* static: the simplices enumerated from the simplex tree
    filtration,      \* worker: Map distance -> {edges, triangles}
    columns,         \* columns of the boundary matrix
    simplices,       \* worker: simplices[]; static: the argument of homologyGroups
    facets,          \* static: facets[]
    lastIndex,       \* Map from 'last' row to the column that claimed it
    emptyBoundary,   \* static: Set of the columns that reduced to zero
    columnIndex,     \* column the forEach of the reduction is at
    lows,            \* values of 'last' seen so far by the for(;;) of the current column
    cancels,         \* symmetric-difference steps done by the current reduction
    pass,            \* 1: the reduction of the program; 2: a second run on its output
    saved,           \* columns and pivot map left by the first run (when pass = 2)
    dim,             \* static: p of the homologyGroups call in progress
    groups,          \* static: results of the homologyGroups calls, p |-> {cycles, boundaries}
    birthsAndDeaths, \* worker: emitted pairs
    maxPersistence,  \* worker: largest death - birth over the emitted pairs
    error,           \* worker: message of the exception thrown, "none" otherwise
    imageRow,        \* worker: i of the rasteriser's outer loop
    persistenceImage,\* worker: the rows pushed so far
    divByZero,       \* worker: TRUE once a division with a zero divisor was performed
    simplexTree,     \* editor: the roots of the simplex tree, one per vertex
    drag,            \* editor: state 'drag' of SimplexEditor or PersistentHomologyEditor
    selectedVertices,\* editor: state 'selectedVertices' of SimplexEditor
    editor,          \* point editor: state 'editor', "vertex" or "shape"
    rectangles,      \* point editor: state 'rectangles', pairs of opposite corners
    selectedObject   \* point editor: state 'selectedObject'

vars == << mode, variant, pc, vertices, complex, filtration, columns, simplices, facets,
           lastIndex, emptyBoundary, columnIndex, lows, cancels, pass, saved, dim,
           groups, birthsAndDeaths, maxPersistence, error, imageRow, persistenceImage,
           divByZero, simplexTree, drag, selectedVertices, editor, rectangles,
           selectedObject >>

(***************************************************************************)
(* Bounds of the model.                                                    *)
(***************************************************************************)
MaxV == 4          \* points given to the worker
MaxCoord == 1      \* x coordinates of the points are 0..MaxCoord pixels
MaxImagePoints == 3  \* points given to the worker when the image is rasterised
MaxN == 4          \* vertices of the edited complex
HalfScale == 50    \* fixed-point units in half a pixel
MaxLevel == 3      \* persistence values given to the rasteriser: 1..MaxLevel steps
LevelStep == 180   \* pixels in one step of persistence
MaxBirthLevel == 1 \* birth values given to the rasteriser: 1..MaxBirthLevel steps
BirthStep == 200   \* pixels in one step of birth
MaxEditorVertices == 3  \* vertices the editor holds at most

Scale == 2 * HalfScale

(***************************************************************************)
(* Helpers.                                                                *)
(***************************************************************************)
Max2(a, b) == IF a >= b THEN a ELSE b

SetMax(S) == CHOOSE m \in S : \A x \in S : x <= m

SeqsUpTo(S, n) == UNION { [1..k -> S] : k \in 0..n }

Range(s) == { s[i] : i \in 1..Len(s) }

\* a < b for two tuples of integers, lexicographically (a proper prefix is smaller)
LexLess(a, b) ==
    \E k \in 1..(Len(b)) :
        /\ \A i \in 1..(k - 1) : i <= Len(a) /\ a[i] = b[i]
        /\ \/ k > Len(a)
           \/ k <= Len(a) /\ a[k] < b[k]

RECURSIVE LexSorted(_)
LexSorted(S) ==
    IF S = {} THEN << >>
    ELSE LET m == CHOOSE x \in S : \A y \in S \ {x} : LexLess(x, y)
         IN  << m >> \o LexSorted(S \ {m})

RECURSIVE NumSorted(_)
NumSorted(S) ==
    IF S = {} THEN << >>
    ELSE LET m == CHOOSE x \in S : \A y \in S : x <= y
         IN  << m >> \o NumSorted(S \ {m})

EmptyMap == [x \in {} |-> 0]

\* null, and undefined
Null == [ null |-> TRUE ]

Undefined == [ undefined |-> TRUE ]

\* the number NaN (undefined + 1, 0 / 0); every comparison with it is false
NaN == -2

(***************************************************************************)
(* Filtration Builder (worker).                                            *)
(***************************************************************************)
\* the points lie on the two pixel rows y = 0 and y = 1, at x = 0..MaxCoord
Rows == 0..1

Points == (0..MaxCoord) \X Rows

\* Largest r in lo..hi with r * r <= n.
RECURSIVE SqrtBetween(_, _, _)
SqrtBetween(n, lo, hi) ==
    IF lo >= hi THEN lo
    ELSE LET mid == (lo + hi + 1) \div 2
         IN  IF mid * mid <= n THEN SqrtBetween(n, mid, hi)
                               ELSE SqrtBetween(n, lo, mid - 1)

\* Math.sqrt of a whole number of square pixels, in fixed point (rounded down),
\* tabulated over the squared distances of two points
SqrtTable ==
    [ x \in 0..(MaxCoord * MaxCoord + 1) |-> SqrtBetween(x * Scale * Scale, 0, x * Scale) ]

Sqrt(x) == SqrtTable[x]

\* Math.pow(d, 2)
Pow2(d) == d * d

\* Euclidean distance of two points
Distance(p, q) == Sqrt(Pow2(p[1] - q[1]) + Pow2(p[2] - q[2]))

\* all [i, j] with i < j, in the order of the two nested loops
EdgeLists ==
    [ V \in 0..(MaxV + 1) |->
        LexSorted({ e \in (0..(V - 1)) \X (0..(V - 1)) : e[1] < e[2] }) ]

EdgeList(V) == EdgeLists[V]

\* all [i, j, k] with i < j < k, in the order of the three nested loops
TriangleLists ==
    [ V \in 0..(MaxV + 1) |->
        LexSorted({ t \in (0..(V - 1)) \X (0..(V - 1)) \X (0..(V - 1)) :
                      t[1] < t[2] /\ t[2] < t[3] }) ]

TriangleList(V) == TriangleLists[V]

EdgeDistance(vs, e) == Distance(vs[e[1] + 1], vs[e[2] + 1])

TriangleDistanceMin(vs, t) ==
    LET a == Distance(vs[t[1] + 1], vs[t[2] + 1])
        b == Distance(vs[t[2] + 1], vs[t[3] + 1])
        c == Distance(vs[t[1] + 1], vs[t[3] + 1])
    IN  IF a <= b /\ a <= c THEN a ELSE IF b <= c THEN b ELSE c

\* Math.max of the three pairwise distances
TriangleDistance(vs, t) ==
    Max2(Distance(vs[t[1] + 1], vs[t[2] + 1]),
         Max2(Distance(vs[t[2] + 1], vs[t[3] + 1]),
              Distance(vs[t[1] + 1], vs[t[3] + 1])))

\* the Map 'filtration' after the two enumeration loops
BuildFiltration(vs) ==
    LET V == Len(vs)
        E == EdgeList(V)
        T == TriangleList(V)
        keys == { EdgeDistance(vs, E[i]) : i \in 1..Len(E) }
                  \cup { TriangleDistance(vs, T[i]) : i \in 1..Len(T) }
        EdgeAt(d) == LET Here(e) == EdgeDistance(vs, e) = d IN SelectSeq(E, Here)
        TriAt(d)  == LET Here(t) == TriangleDistance(vs, t) = d IN SelectSeq(T, Here)
    IN  [ d \in keys |-> [ edges |-> EdgeAt(d), triangles |-> TriAt(d) ] ]

(***************************************************************************)
(* Simplex Indexer (worker).  st is the triple of arrays being built:      *)
(* columns, simplices and the Map edgeToColumnIndex.                       *)
(***************************************************************************)
\* simplices: new Set([columns.length]) in the witness-carrying worker; the
\* plain worker has no such set (it is kept empty here).
OwnIndex(var, n) == IF var = "details" THEN { n } ELSE {}

AddEdge(st, edge, level, var) ==
    [ columns |-> Append(st.columns,
                         [ filtrationLevel |-> level,
                           boundary |-> { edge[1], edge[2] },
                           simplices |-> OwnIndex(var, Len(st.columns)) ]),
      simplices |-> Append(st.simplices, edge),
      edgeToColumnIndex |-> st.edgeToColumnIndex @@ (edge :> Len(st.columns)) ]

\* the offset by vertices.length is left out
EdgeRowNoOffset(st, edge, V) ==
    IF edge \in DOMAIN st.edgeToColumnIndex THEN st.edgeToColumnIndex[edge] ELSE NaN

\* vertices.length + edgeToColumnIndex.get(JSON.stringify(edge))!
EdgeRow(st, edge, V) ==
    IF edge \in DOMAIN st.edgeToColumnIndex THEN V + st.edgeToColumnIndex[edge] ELSE NaN

\* the column's own index is added to the boundary set as well
AddTriangleOwnRow(st, triangle, level, V, var) ==
    [ columns |-> Append(st.columns,
                         [ filtrationLevel |-> level,
                           boundary |->
                             { EdgeRow(st, << triangle[1], triangle[2] >>, V),
                               EdgeRow(st, << triangle[2], triangle[3] >>, V),
                               EdgeRow(st, << triangle[1], triangle[3] >>, V) }
                               \cup OwnIndex(var, Len(st.columns)),
                           simplices |-> OwnIndex(var, Len(st.columns)) ]),
      simplices |-> Append(st.simplices, triangle),
      edgeToColumnIndex |-> st.edgeToColumnIndex ]

AddTriangle(st, triangle, level, V, var) ==
    [ columns |-> Append(st.columns,
                         [ filtrationLevel |-> level,
                           boundary |->
                             { EdgeRow(st, << triangle[1], triangle[2] >>, V),
                               EdgeRow(st, << triangle[2], triangle[3] >>, V),
                               EdgeRow(st, << triangle[1], triangle[3] >>, V) },
                           simplices |-> OwnIndex(var, Len(st.columns)) ]),
      simplices |-> Append(st.simplices, triangle),
      edgeToColumnIndex |-> st.edgeToColumnIndex ]

RECURSIVE AddEdges(_, _, _, _)
AddEdges(st, edges, level, var) ==
    IF edges = << >> THEN st
    ELSE AddEdges(AddEdge(st, Head(edges), level, var), Tail(edges), level, var)

RECURSIVE AddTriangles(_, _, _, _, _)
AddTriangles(st, triangles, level, V, var) ==
    IF triangles = << >> THEN st
    ELSE AddTriangles(AddTriangle(st, Head(triangles), level, V, var),
                      Tail(triangles), level, V, var)

AddLevelTrianglesFirst(st, filt, level, V, var) ==
    AddEdges(AddTriangles(st, filt[level].triangles, level, V, var),
             filt[level].edges, level, var)

\* one filtration level: its edges, then its triangles
AddLevel(st, filt, level, V, var) ==
    AddTriangles(AddEdges(st, filt[level].edges, level, var),
                 filt[level].triangles, level, V, var)

RECURSIVE AddLevels(_, _, _, _, _)
AddLevels(st, filt, levels, V, var) ==
    IF levels = << >> THEN st
    ELSE AddLevels(AddLevel(st, filt, Head(levels), V, var), filt, Tail(levels), V, var)

\* [...filtration.keys()].sort((a, b) => a - b).forEach(...)
BuildColumns(filt, V, var) ==
    AddLevels([ columns |-> << >>, simplices |-> << >>, edgeToColumnIndex |-> EmptyMap ],
              filt, NumSorted(DOMAIN filt), V, var)

(***************************************************************************)
(* Boundary Reduction Kernel: what the three copies of the loop share.     *)
(***************************************************************************)
\* the smallest row is taken where the largest is meant
LastSmallest(S) ==
    IF S \ { NaN } = {} THEN -1
    ELSE CHOOSE x \in S \ { NaN } : \A y \in S \ { NaN } : x <= y

\* let last = -1; set.forEach(i => { if (last < i) last = i })
Last(S) == IF S \ { NaN } = {} THEN -1 ELSE SetMax(S \ { NaN })

ToggleAddOnly(own, prev) == own \cup prev

\* the else branch (add) is missing
ToggleDeleteOnly(own, prev) == own \ prev

\* prev.forEach(i => { if (own.has(i)) own.delete(i) else own.add(i) })
Toggle(own, prev) == (own \ prev) \cup (prev \ own)

ClaimedNever(map, last) == FALSE

\* if (!prevColumnIndex): column 0 taken for undefined
ClaimedFalsy(map, last) == last \in DOMAIN map /\ map[last] # 0

\* lastIndex.get(last) !== undefined
Claimed(map, last) == last \in DOMAIN map

\* lastIndex.set(last, columnIndex)
SetPivot(map, last, c) == [ r \in DOMAIN map \cup { last } |-> IF r = last THEN c ELSE map[r] ]

\* the entries of the Map in the order forEach visits them: insertion order,
\* which is the order of the claiming columns
Entries(map) ==
    LET cols == NumSorted({ map[r] : r \in DOMAIN map })
    IN  [ i \in 1..Len(cols) |->
            LET r == CHOOSE x \in DOMAIN map : map[x] = cols[i] IN << r, cols[i] >> ]

\* the forEach of the reduction moves to the next column, or ends
NextColumn ==
    /\ columnIndex' = columnIndex + 1
    /\ lows' = << >>
    /\ pc' = IF columnIndex + 1 >= Len(columns) THEN "reduced" ELSE "reduce"

staticVars == << complex, facets, emptyBoundary, dim, groups >>

outVars == << birthsAndDeaths, maxPersistence, error, imageRow, persistenceImage, divByZero >>

shapeVars == << editor, rectangles, selectedObject >>

editorVars == << simplexTree, drag, selectedVertices, shapeVars >>

inVars == << mode, variant, vertices, editorVars >>

(***************************************************************************)
(* Worker: filtration, columns, reduction.                                 *)
(***************************************************************************)
\* lines 9-100: the filtration Map and the columns
Build ==
    /\ mode = "worker"
    /\ pc = "start"
    /\ LET filt == BuildFiltration(vertices)
           st == BuildColumns(filt, Len(vertices), variant)
       IN  /\ filtration' = filt
           /\ columns' = st.columns
           /\ simplices' = st.simplices
           /\ pc' = IF Len(st.columns) = 0 THEN "reduced" ELSE "reduce"
    /\ lastIndex' = EmptyMap
    /\ columnIndex' = 0
    /\ lows' = << >>
    /\ cancels' = 0
    /\ UNCHANGED << inVars, staticVars, outVars, pass, saved >>

\* if (last === -1) break
ZeroColumn ==
    /\ mode = "worker"
    /\ pc = "reduce"
    /\ Last(columns[columnIndex + 1].boundary) = -1
    /\ NextColumn
    /\ UNCHANGED << inVars, staticVars, outVars, pass, saved, filtration, columns,
                    simplices, lastIndex, cancels >>

\* if (prevColumnIndex === undefined) { lastIndex.set(last, columnIndex); break }
ClaimPivot ==
    /\ mode = "worker"
    /\ pc = "reduce"
    /\ LET last == Last(columns[columnIndex + 1].boundary)
       IN  /\ last # -1
           /\ ~Claimed(lastIndex, last)
           /\ lastIndex' = SetPivot(lastIndex, last, columnIndex)
    /\ NextColumn
    /\ UNCHANGED << inVars, staticVars, outVars, pass, saved, filtration, columns,
                    simplices, cancels >>

\* one cancellation, then on to the next column: an if where the for(;;) is
CancelOnce ==
    /\ mode = "worker"
    /\ pc = "reduce"
    /\ LET column == columns[columnIndex + 1]
           last == Last(column.boundary)
       IN  /\ last # -1
           /\ Claimed(lastIndex, last)
           /\ LET prevColumn == columns[lastIndex[last] + 1]
              IN  columns' = [ columns EXCEPT ![columnIndex + 1] =
                                 [ column EXCEPT
                                     !.boundary = Toggle(column.boundary, prevColumn.boundary),
                                     !.simplices = Toggle(column.simplices, prevColumn.simplices) ] ]
    /\ NextColumn
    /\ cancels' = cancels + 1
    /\ UNCHANGED << inVars, staticVars, outVars, pass, saved, filtration, simplices,
                    lastIndex >>

\* the membership set is left out of the symmetric difference
CancelBoundaryOnly ==
    /\ mode = "worker"
    /\ pc = "reduce"
    /\ LET column == columns[columnIndex + 1]
           last == Last(column.boundary)
       IN  /\ last # -1
           /\ Claimed(lastIndex, last)
           /\ LET prevColumn == columns[lastIndex[last] + 1]
              IN  columns' = [ columns EXCEPT ![columnIndex + 1] =
                                 [ column EXCEPT
                                     !.boundary = Toggle(column.boundary, prevColumn.boundary) ] ]
           /\ lows' = Append(lows, last)
    /\ cancels' = cancels + 1
    /\ UNCHANGED << inVars, staticVars, outVars, pass, saved, filtration, simplices,
                    lastIndex, columnIndex, pc >>

\* the two forEach over prevColumn.boundary and prevColumn.simplices
Cancel ==
    /\ mode = "worker"
    /\ pc = "reduce"
    /\ LET column == columns[columnIndex + 1]
           last == Last(column.boundary)
       IN  /\ last # -1
           /\ Claimed(lastIndex, last)
           /\ LET prevColumn == columns[lastIndex[last] + 1]
              IN  columns' = [ columns EXCEPT ![columnIndex + 1] =
                                 [ column EXCEPT
                                     !.boundary = Toggle(column.boundary, prevColumn.boundary),
                                     !.simplices = Toggle(column.simplices, prevColumn.simplices) ] ]
           /\ lows' = Append(lows, last)
    /\ cancels' = cancels + 1
    /\ UNCHANGED << inVars, staticVars, outVars, pass, saved, filtration, simplices,
                    lastIndex, columnIndex, pc >>

(***************************************************************************)
(* Persistence Extractor (worker), lines 141-189.                          *)
(***************************************************************************)
SkipsEdgePivots(last, V) == last >= V

SkipsNothing(last, V) == FALSE

\* if (last <= vertices.length) return
Skips(last, V) == last <= V

EmitsAll(birth, death) == TRUE

EmitsWhenEqual(birth, death) == birth = death

\* if (birthColumn.filtrationLevel !== deathColumn.filtrationLevel)
Emits(birth, death) == birth # death

\* simplices[i], << >> standing for undefined
SimplexAt(simp, i) == IF i \in 0..(Len(simp) - 1) THEN simp[i + 1] ELSE << >>

\* the exception the two witness loops throw for this column, if any
WitnessError(deathColumn, simp, V) ==
    LET badEdges == { i \in deathColumn.boundary : Len(SimplexAt(simp, i - V)) # 2 }
        badTriangles == { i \in deathColumn.simplices : Len(SimplexAt(simp, i)) # 3 }
    IN  IF \E i \in badEdges : SimplexAt(simp, i - V) = << >> THEN "TypeError"
        ELSE IF badEdges # {} THEN "Expected edge, got triangle."
        ELSE IF \E i \in badTriangles : SimplexAt(simp, i) = << >> THEN "TypeError"
        ELSE IF badTriangles # {} THEN "Expected triangle, got edge."
        ELSE "none"

\* one call of the callback of lastIndex.forEach; acc = [pairs, maxPersistence, error]
ExtractEntry(acc, last, col, cols, simp, V, var) ==
    IF acc.error # "none" \/ Skips(last, V) THEN acc
    ELSE LET birthColumn == cols[last - V + 1]
             deathColumn == cols[col + 1]
             err == IF var = "details" THEN WitnessError(deathColumn, simp, V) ELSE "none"
             birth == birthColumn.filtrationLevel
             death == deathColumn.filtrationLevel
         IN  IF err # "none" THEN [ acc EXCEPT !.error = err ]
             ELSE IF ~Emits(birth, death) THEN acc
             ELSE [ pairs |-> Append(acc.pairs,
                                [ filtrationLevels |-> << birth, death >>,
                                  birthEdges |->
                                    IF var = "details"
                                    THEN { SimplexAt(simp, i - V) : i \in deathColumn.boundary }
                                    ELSE {},
                                  deathTriangles |->
                                    IF var = "details"
                                    THEN { SimplexAt(simp, i) : i \in deathColumn.simplices }
                                    ELSE {} ]),
                    maxPersistence |-> Max2(acc.maxPersistence, death - birth),
                    error |-> "none" ]

RECURSIVE ExtractFrom(_, _, _, _, _, _)
ExtractFrom(acc, entries, cols, simp, V, var) ==
    IF entries = << >> THEN acc
    ELSE ExtractFrom(ExtractEntry(acc, Head(entries)[1], Head(entries)[2], cols, simp, V, var),
                     Tail(entries), cols, simp, V, var)

\* lastIndex.forEach(...): the pairs, maxPersistence, and the exception if one is thrown
Extract ==
    /\ mode = "worker"
    /\ pc = "reduced"
    /\ LET acc == ExtractFrom([ pairs |-> << >>, maxPersistence |-> 0, error |-> "none" ],
                              Entries(lastIndex), columns, simplices, Len(vertices), variant)
       IN  /\ birthsAndDeaths' = acc.pairs
           /\ maxPersistence' = acc.maxPersistence
           /\ error' = acc.error
           /\ pc' = IF acc.error = "none" THEN "raster" ELSE "failed"
    /\ UNCHANGED << inVars, staticVars, filtration, columns, simplices, lastIndex,
                    columnIndex, lows, cancels, pass, saved, imageRow,
                    persistenceImage, divByZero >>

(***************************************************************************)
(* Static mode: SimplexDetails and homologyGroups (App.tsx).               *)
(***************************************************************************)
\* simplices.get(p) ?? []: insertSimplices lists the simplices of one size in
\* depth-first order over label-sorted children, that is lexicographically
SimplicesOfSize(K, p) == LexSorted({ s \in K : Len(s) = p + 1 })

\* [...simplex.slice(0, i), ...simplex.slice(i + 1)], i zero-based
Facet(simplex, i) ==
    [ k \in 1..(Len(simplex) - 1) |-> IF k <= i THEN simplex[k] ELSE simplex[k + 1] ]

\* facetToIndex.get(JSON.stringify(facet)): the index of the facet in fs, or -1
FacetIndex(fs, facet) ==
    IF \E k \in 1..Len(fs) : fs[k] = facet
    THEN (CHOOSE k \in 1..Len(fs) : fs[k] = facet) - 1
    ELSE -1

\* the for loop over the positions of one simplex; st = [facets, boundaryFacetIndices]
RECURSIVE AddFacets(_, _, _)
AddFacets(st, simplex, i) ==
    IF i >= Len(simplex) THEN st
    ELSE LET facet == Facet(simplex, i)
             found == FacetIndex(st.facets, facet)
             facetIndex == IF found = -1 THEN Len(st.facets) ELSE found
         IN  AddFacets([ facets |-> IF found = -1 THEN Append(st.facets, facet)
                                                   ELSE st.facets,
                         boundaryFacetIndices |-> st.boundaryFacetIndices \cup { facetIndex } ],
                       simplex, i + 1)

\* simplices.map((simplex, index) => ...); st = [facets, columns]
RECURSIVE FacetColumns(_, _, _)
FacetColumns(st, simps, index) ==
    IF index >= Len(simps) THEN st
    ELSE LET one == AddFacets([ facets |-> st.facets, boundaryFacetIndices |-> {} ],
                              simps[index + 1], 0)
         IN  FacetColumns([ facets |-> one.facets,
                            columns |-> Append(st.columns,
                                          [ simplexIndices |-> { index },
                                            boundaryFacetIndices |-> one.boundaryFacetIndices ]) ],
                          simps, index + 1)

\* the homologyGroups call after this one, or the end of SimplexDetails
NextCall ==
    /\ dim' = dim + 1
    /\ pc' = IF dim >= 2 THEN "done" ELSE "call"

runVars == << columns, facets, lastIndex, emptyBoundary, columnIndex, lows, cancels,
              pass, saved >>

\* if (simplices.length === 0) return { cycles: [], boundaries: [] }
HomologyEmpty ==
    /\ mode = "static"
    /\ pc = "call"
    /\ SimplicesOfSize(complex, dim) = << >>
    /\ simplices' = << >>
    /\ groups' = groups @@ (dim :> [ cycles |-> << >>, boundaries |-> << >> ])
    /\ NextCall
    /\ UNCHANGED << inVars, complex, filtration, runVars, outVars >>

\* if (simplices[0].length === 1) return { cycles: simplices.map(s => [s]), boundaries: [] }
HomologyVertices ==
    /\ mode = "static"
    /\ pc = "call"
    /\ LET simps == SimplicesOfSize(complex, dim)
       IN  /\ simps # << >>
           /\ Len(simps[1]) = 1
           /\ simplices' = simps
           /\ groups' = groups @@
                  (dim :> [ cycles |-> [ i \in 1..Len(simps) |-> { simps[i] } ],
                            boundaries |-> << >> ])
    /\ NextCall
    /\ UNCHANGED << inVars, complex, filtration, runVars, outVars >>

\* lines 569-597: facets, columns, the empty lastIndex and emptyBoundary
HomologyColumns ==
    /\ mode = "static"
    /\ pc = "call"
    /\ LET simps == SimplicesOfSize(complex, dim)
       IN  /\ simps # << >>
           /\ Len(simps[1]) # 1
           /\ simplices' = simps
           /\ LET st == FacetColumns([ facets |-> << >>, columns |-> << >> ], simps, 0)
              IN  /\ facets' = st.facets
                  /\ columns' = st.columns
    /\ lastIndex' = EmptyMap
    /\ emptyBoundary' = {}
    /\ columnIndex' = 0
    /\ lows' = << >>
    /\ cancels' = 0
    /\ pass' = 1
    /\ pc' = "reduce"
    /\ UNCHANGED << inVars, complex, filtration, saved, dim, groups, outVars >>

\* the column that reduced to zero is not recorded
HZeroColumnForgets ==
    /\ mode = "static"
    /\ pc = "reduce"
    /\ Last(columns[columnIndex + 1].boundaryFacetIndices) = -1
    /\ NextColumn
    /\ UNCHANGED << inVars, complex, filtration, columns, simplices, facets, lastIndex,
                    emptyBoundary, cancels, pass, saved, dim, groups, outVars >>

\* if (columnLast === -1) { emptyBoundary.add(index); return }
HZeroColumn ==
    /\ mode = "static"
    /\ pc = "reduce"
    /\ Last(columns[columnIndex + 1].boundaryFacetIndices) = -1
    /\ emptyBoundary' = emptyBoundary \cup { columnIndex }
    /\ NextColumn
    /\ UNCHANGED << inVars, complex, filtration, columns, simplices, facets, lastIndex,
                    cancels, pass, saved, dim, groups, outVars >>

\* if (columnWithSameLastIndex === undefined) { lastIndex.set(columnLast, index); return }
HClaimPivot ==
    /\ mode = "static"
    /\ pc = "reduce"
    /\ LET columnLast == Last(columns[columnIndex + 1].boundaryFacetIndices)
       IN  /\ columnLast # -1
           /\ ~Claimed(lastIndex, columnLast)
           /\ lastIndex' = SetPivot(lastIndex, columnLast, columnIndex)
    /\ NextColumn
    /\ UNCHANGED << inVars, complex, filtration, columns, simplices, facets, emptyBoundary,
                    cancels, pass, saved, dim, groups, outVars >>

\* the two forEach over prevSimplexIndices and prevBoundaryFacetIndices
HCancel ==
    /\ mode = "static"
    /\ pc = "reduce"
    /\ LET column == columns[columnIndex + 1]
           columnLast == Last(column.boundaryFacetIndices)
       IN  /\ columnLast # -1
           /\ Claimed(lastIndex, columnLast)
           /\ LET prev == columns[lastIndex[columnLast] + 1]
              IN  columns' = [ columns EXCEPT ![columnIndex + 1] =
                                 [ simplexIndices |->
                                     Toggle(column.simplexIndices, prev.simplexIndices),
                                   boundaryFacetIndices |->
                                     Toggle(column.boundaryFacetIndices,
                                            prev.boundaryFacetIndices) ] ]
           /\ lows' = Append(lows, columnLast)
    /\ cancels' = cancels + 1
    /\ UNCHANGED << inVars, complex, filtration, simplices, facets, lastIndex, emptyBoundary,
                    columnIndex, pc, pass, saved, dim, groups, outVars >>

\* lines 640-653: the generators of Z_p and B_(p-1)
HomologyReturn ==
    /\ mode = "static"
    /\ pc = "reduced"
    /\ LET zero == NumSorted(emptyBoundary)
           pivots == Entries(lastIndex)
       IN  groups' = groups @@
             (dim :> [ cycles |->
                         [ i \in 1..Len(zero) |->
                             { simplices[k + 1] : k \in columns[zero[i] + 1].simplexIndices } ],
                       boundaries |->
                         [ i \in 1..Len(pivots) |->
                             { facets[k + 1] :
                                 k \in columns[pivots[i][2] + 1].boundaryFacetIndices } ] ])
    /\ NextCall
    /\ UNCHANGED << inVars, complex, filtration, simplices, runVars, outVars >>

(***************************************************************************)
(* Persistence Image Rasteriser (worker), lines 191-236.                   *)
(*                                                                         *)
(* Positions are in half pixels, the exponential is in units of 1 / ExpOne *)
(* (kept to 4 digits in the product with the weight) and a cell value is   *)
(* in units of 100 / (Scale * ExpOne).  The sum of a                       *)
(* cell is taken pair by pair, which gives the same integer as the order   *)
(* of the loops in the source.                                             *)
(***************************************************************************)
ImageSize == 500

GridSize == 50

IntegralGridSize == 10

Sigma == 10

\* Math.PI, in thousandths
Pi1000 == 3141

GridSquareSize == ImageSize \div GridSize

IntegralGridSquareSize == GridSquareSize \div IntegralGridSize

\* Math.exp(-a) for a = 0, 1, ..., in millionths
ExpTable ==
    << 1000000, 367879, 135335, 49787, 18315, 6737, 2478, 911, 335, 123, 45, 16, 6, 2 >>

ExpOne == ExpTable[1]

\* sum of the series of exp(-b / den) from its n-th term on, 0 <= b < den
RECURSIVE ExpSeries(_, _, _, _)
ExpSeries(b, den, n, term) ==
    IF term = 0 THEN 0
    ELSE term - ExpSeries(b, den, n + 1, (term * b) \div (den * (n + 1)))

\* Math.exp(-q / den) for q >= 0
ExpNeg(q, den) ==
    LET a == q \div den
    IN  IF a >= Len(ExpTable) THEN 0
        ELSE (ExpTable[a + 1] * (ExpSeries(q % den, den, 0, ExpOne) \div 1000)) \div 1000

\* a fixed-point length in half pixels
HalfPixels(x) == x \div HalfScale

\* every pair weighs one pixel
WeightConstant(persistence, maxP, var) == Scale

\* const weight = point[1] (details) or point[1] / maxPersistence (normalised)
Weight(persistence, maxP, var) ==
    IF var = "details" THEN persistence
    ELSE IF maxP = 0 THEN NaN
    ELSE (persistence * Scale) \div maxP

\* the summand of functionValueAtCenter for one pair at the centre of sub-cell (k, l)
KernelAt(pair, maxP, var, xMin, yMin, k, l) ==
    LET birth == pair.filtrationLevels[1]
        death == pair.filtrationLevels[2]
        cx == 2 * xMin + (2 * k + 1) * IntegralGridSquareSize
        cy == 2 * yMin + (2 * l + 1) * IntegralGridSquareSize
        dx == HalfPixels(birth) - cx
        dy == HalfPixels(death - birth) - cy
        weight == Weight(death - birth, maxP, var)
    IN  IF weight = NaN THEN NaN
        ELSE (weight * (ExpNeg(dx * dx + dy * dy, 4 * 2 * Sigma * Sigma) \div 100))
                \div ((2 * Pi1000 * Sigma * Sigma) \div 1000)

\* a + b in floating point: NaN if either is
Plus(a, b) == IF a = NaN \/ b = NaN THEN NaN ELSE a + b

\* the loop over l for one pair and one k, from l on
RECURSIVE PairIntegralL(_, _, _, _, _, _, _)
PairIntegralL(pair, maxP, var, xMin, yMin, k, l) ==
    IF l >= IntegralGridSize THEN 0
    ELSE Plus(KernelAt(pair, maxP, var, xMin, yMin, k, l)
                * IntegralGridSquareSize * IntegralGridSquareSize,
              PairIntegralL(pair, maxP, var, xMin, yMin, k, l + 1))

\* the contribution of one pair to the integral of the cell: the loop over k, from k on
RECURSIVE PairIntegral(_, _, _, _, _, _)
PairIntegral(pair, maxP, var, xMin, yMin, k) ==
    IF k >= IntegralGridSize THEN 0
    ELSE Plus(PairIntegralL(pair, maxP, var, xMin, yMin, k, 0),
              PairIntegral(pair, maxP, var, xMin, yMin, k + 1))

\* distance in half pixels from x to the centres of the sub-cells of a cell that
\* starts at min (0 if x lies among them)
Gap(x, min) ==
    LET first == 2 * min + IntegralGridSquareSize
        last == 2 * min + (2 * IntegralGridSize - 1) * IntegralGridSquareSize
    IN  IF x < first THEN first - x ELSE IF x > last THEN x - last ELSE 0

\* every sub-cell centre of the cell is so far from the point of the pair that
\* ExpNeg is 0 there
Far(pair, xMin, yMin) ==
    LET gx == Gap(HalfPixels(pair.filtrationLevels[1]), xMin)
        gy == Gap(HalfPixels(pair.filtrationLevels[2] - pair.filtrationLevels[1]), yMin)
    IN  gx * gx + gy * gy >= Len(ExpTable) * 4 * 2 * Sigma * Sigma

\* the contribution of one pair to 'integral' of cell (i, j); the hundred zero
\* summands of a far cell are not enumerated
PairCell(pair, maxP, var, xMin, yMin) ==
    IF Weight(pair.filtrationLevels[2] - pair.filtrationLevels[1], maxP, var) = NaN THEN NaN
    ELSE IF Far(pair, xMin, yMin) THEN 0
    ELSE PairIntegral(pair, maxP, var, xMin, yMin, 0)

RECURSIVE CellIntegral(_, _, _, _, _)
CellIntegral(pairs, maxP, var, i, j) ==
    IF pairs = << >> THEN 0
    ELSE Plus(PairCell(Head(pairs), maxP, var,
                       j * GridSquareSize, (GridSize - 1 - i) * GridSquareSize),
              CellIntegral(Tail(pairs), maxP, var, i, j))

\* one iteration of the loop over i: a row of the image; the last one is
\* followed by postMessage
RasterRow ==
    /\ mode = "worker"
    /\ pc = "raster"
    /\ persistenceImage' =
          Append(persistenceImage,
                 [ j \in 1..GridSize |->
                     CellIntegral(birthsAndDeaths, maxPersistence, variant, imageRow, j - 1) ])
    /\ divByZero' = (divByZero \/ (variant = "normalised" /\ birthsAndDeaths # << >>
                                      /\ maxPersistence = 0))
    /\ imageRow' = imageRow + 1
    /\ pc' = IF imageRow + 1 >= GridSize THEN "posted" ELSE "raster"
    /\ UNCHANGED << inVars, staticVars, filtration, columns, simplices, lastIndex,
                    columnIndex, lows, cancels, pass, saved, birthsAndDeaths,
                    maxPersistence, error >>

(***************************************************************************)
(* A second run of the kernel, with a fresh pivot map, on the columns the  *)
(* first run left.                                                         *)
(***************************************************************************)
Rerun ==
    /\ pc = "reduced"
    /\ pass = 1
    /\ Len(columns) > 0
    /\ saved' = [ columns |-> columns, lastIndex |-> lastIndex ]
    /\ lastIndex' = EmptyMap
    /\ emptyBoundary' = {}
    /\ columnIndex' = 0
    /\ lows' = << >>
    /\ cancels' = 0
    /\ pass' = 2
    /\ pc' = "reduce"
    /\ UNCHANGED << inVars, complex, filtration, columns, simplices, facets, dim, groups,
                    outVars >>

(***************************************************************************)
(* The simplex tree and the editor (App.tsx).  A node is a record          *)
(* [label, children], children being the Map from a label to a node.       *)
(***************************************************************************)
VERTEX_RADIUS == 20

\* Map.set(key, value)
MapSet(map, key, value) ==
    [ k \in DOMAIN map \cup { key } |-> IF k = key THEN value ELSE map[k] ]

\* only the path of the simplex is inserted (step (ii) is left out)
RECURSIVE insertSimplexPathOnly(_, _, _)
insertSimplexPathOnly(tree, simplexVertices, index) ==
    IF index >= Len(simplexVertices) THEN tree
    ELSE LET childLabel == simplexVertices[index + 1]
             childTree == IF childLabel \in DOMAIN tree.children
                          THEN tree.children[childLabel]
                          ELSE [ label |-> childLabel, children |-> EmptyMap ]
         IN  [ label |-> tree.label,
               children |-> MapSet(tree.children, childLabel,
                                   insertSimplexPathOnly(childTree, simplexVertices,
                                                         index + 1)) ]

\* a copy of the tree with [tree.label, ...simplexVertices.slice(index)] and
\* its faces inserted
RECURSIVE insertSimplex(_, _, _)
insertSimplex(tree, simplexVertices, index) ==
    IF index >= Len(simplexVertices) THEN tree
    ELSE LET childLabel == simplexVertices[index + 1]
             childTree == IF childLabel \in DOMAIN tree.children
                          THEN tree.children[childLabel]
                          ELSE [ label |-> childLabel, children |-> EmptyMap ]
             newTree == [ label |-> tree.label,
                          children |-> MapSet(tree.children, childLabel,
                                              insertSimplex(childTree, simplexVertices,
                                                            index + 1)) ]
         IN  insertSimplex(newTree, simplexVertices, index + 1)

\* a subtree whose label is not the next vertex of the simplex is kept as it is
RECURSIVE deleteNonEmptySimplexPrefixOnly(_, _, _)
deleteNonEmptySimplexPrefixOnly(tree, simplexVertices, index) ==
    LET found == index < Len(simplexVertices) /\ simplexVertices[index + 1] = tree.label
    IN  IF found /\ index = Len(simplexVertices) - 1 THEN Null
        ELSE IF ~found THEN tree
        ELSE LET next == index + 1
                 kept == { k \in DOMAIN tree.children :
                             deleteNonEmptySimplexPrefixOnly(tree.children[k],
                                                             simplexVertices, next)
                                 # Null }
             IN  [ label |-> tree.label,
                   children |->
                     [ l \in { tree.children[k].label : k \in kept } |->
                         deleteNonEmptySimplexPrefixOnly(
                             tree.children[CHOOSE k \in kept : tree.children[k].label = l],
                             simplexVertices, next) ] ]

\* a copy of the tree with simplexVertices.slice(index) and its cofaces
\* removed, or Null
RECURSIVE deleteNonEmptySimplex(_, _, _)
deleteNonEmptySimplex(tree, simplexVertices, index) ==
    LET found == index < Len(simplexVertices) /\ simplexVertices[index + 1] = tree.label
    IN  IF found /\ index = Len(simplexVertices) - 1 THEN Null
        ELSE LET next == IF found THEN index + 1 ELSE index
                 kept == { k \in DOMAIN tree.children :
                             deleteNonEmptySimplex(tree.children[k], simplexVertices, next)
                                 # Null }
             IN  [ label |-> tree.label,
                   children |->
                     [ l \in { tree.children[k].label : k \in kept } |->
                         deleteNonEmptySimplex(
                             tree.children[CHOOSE k \in kept : tree.children[k].label = l],
                             simplexVertices, next) ] ]

\* the labels larger than the vertex are left as they are
RECURSIVE removeVertexKeepsLabels(_, _)
removeVertexKeepsLabels(tree, vertex) ==
    IF tree.label = vertex THEN Null
    ELSE LET kept == { k \in DOMAIN tree.children :
                          removeVertexKeepsLabels(tree.children[k], vertex) # Null }
         IN  [ label |-> tree.label,
               children |->
                 [ l \in { tree.children[k].label : k \in kept } |->
                     removeVertexKeepsLabels(
                         tree.children[CHOOSE k \in kept : tree.children[k].label = l],
                         vertex) ] ]

\* a copy of the tree with the vertex removed and the larger labels decreased
\* by 1, or Null
RECURSIVE removeVertex(_, _)
removeVertex(tree, vertex) ==
    IF tree.label = vertex THEN Null
    ELSE LET kept == { k \in DOMAIN tree.children :
                          removeVertex(tree.children[k], vertex) # Null }
             NewLabel(k) == removeVertex(tree.children[k], vertex).label
         IN  [ label |-> IF tree.label > vertex THEN tree.label - 1 ELSE tree.label,
               children |->
                 [ l \in { NewLabel(k) : k \in kept } |->
                     removeVertex(tree.children[CHOOSE k \in kept : NewLabel(k) = l],
                                  vertex) ] ]

\* the simplices insertSimplices pushes for a node reached through visitedLabels
RECURSIVE insertSimplices(_, _)
insertSimplices(node, visitedLabels) ==
    LET simplex == Append(visitedLabels, node.label)
    IN  { simplex } \cup
        UNION { insertSimplices(node.children[k], simplex) : k \in DOMAIN node.children }

\* simplexTree.forEach((vertexTree) => insertSimplices(vertexTree, [], simplices))
ListedSimplices(tree) ==
    UNION { insertSimplices(tree[i], << >>) : i \in 1..Len(tree) }

\* [...a.slice(0, index), ...a.slice(index + 1)]
Without(a, index) ==
    SubSeq(a, 1, IF index < Len(a) THEN index ELSE Len(a)) \o SubSeq(a, index + 2, Len(a))

\* [...a.slice(0, index), value, ...a.slice(index + 1)]
With(a, index, value) ==
    SubSeq(a, 1, IF index < Len(a) THEN index ELSE Len(a))
        \o << value >> \o SubSeq(a, index + 2, Len(a))

\* the places of the canvas the mouse is pressed, moved to and released at
MousePositions == { << 5 * VERTEX_RADIUS * k, 0 >> : k \in 0..(MaxEditorVertices - 1) }

\* vertices.findIndex(vertex => distance to the offset < VERTEX_RADIUS)
findIndex(vs, offset) ==
    LET hit == { i \in 1..Len(vs) :
                   Pow2(vs[i][1] - offset[1]) + Pow2(vs[i][2] - offset[2])
                       < Pow2(VERTEX_RADIUS) }
    IN  IF hit = {} THEN -1 ELSE (CHOOSE i \in hit : \A j \in hit : i <= j) - 1

\* every root is a node: Simplices can render the tree
Renders(tree) == \A i \in 1..Len(tree) : tree[i] # Undefined /\ tree[i] # Null

\* the editor is shown and handles events
Editing == mode = "editor" /\ pc = "editor"

engineVars == << variant, complex, filtration, columns, simplices, facets, lastIndex,
                 emptyBoundary, columnIndex, lows, cancels, pass, saved, dim, groups,
                 birthsAndDeaths, maxPersistence, error, imageRow, persistenceImage,
                 divByZero, shapeVars >>

\* mouseDownCanvas, e.button === 0
mouseDownCanvas(offsetFromCanvasCenter) ==
    /\ Editing
    /\ LET vertexIndex == findIndex(vertices, offsetFromCanvasCenter)
       IN  IF vertexIndex > -1
           THEN IF selectedVertices # Null
                THEN LET items == selectedVertices.items
                         at == { k \in 1..Len(items) : items[k] = vertexIndex }
                     IN  /\ selectedVertices' =
                               [ items |-> IF at # {}
                                           THEN Without(items, (CHOOSE k \in at : TRUE) - 1)
                                           ELSE Append(items, vertexIndex) ]
                         /\ drag' = drag
                ELSE /\ drag' =
                          [ initialOffsetFromCanvasCenter |-> offsetFromCanvasCenter,
                            vertex |->
                              [ index |-> vertexIndex,
                                offsetFromVertexCenter |->
                                  << offsetFromCanvasCenter[1] - vertices[vertexIndex + 1][1],
                                     offsetFromCanvasCenter[2] - vertices[vertexIndex + 1][2] >> ] ]
                     /\ selectedVertices' = selectedVertices
           ELSE /\ drag' = [ initialOffsetFromCanvasCenter |-> offsetFromCanvasCenter,
                             vertex |-> Null ]
                /\ selectedVertices' = selectedVertices
    /\ UNCHANGED << mode, pc, vertices, simplexTree, engineVars >>

\* the vertex list with the dragged vertex put under the mouse
Dragged(offsetFromCanvasCenter) ==
    With(vertices, drag.vertex.index,
         << offsetFromCanvasCenter[1] - drag.vertex.offsetFromVertexCenter[1],
            offsetFromCanvasCenter[2] - drag.vertex.offsetFromVertexCenter[2] >>)

\* mouseMoveWindow
mouseMoveWindow(offsetFromCanvasCenter) ==
    /\ Editing
    /\ selectedVertices = Null
    /\ drag # Null
    /\ drag.vertex # Null
    /\ Len(Dragged(offsetFromCanvasCenter)) <= MaxEditorVertices
    /\ vertices' = Dragged(offsetFromCanvasCenter)
    /\ UNCHANGED << mode, pc, simplexTree, drag, selectedVertices, engineVars >>

\* mouseUpWindow, e.button === 0
mouseUpWindow(offsetFromCanvasCenter) ==
    /\ Editing
    /\ selectedVertices = Null
    /\ drag # Null
    /\ IF drag.vertex # Null
       THEN /\ Len(Dragged(offsetFromCanvasCenter)) <= MaxEditorVertices
            /\ vertices' = Dragged(offsetFromCanvasCenter)
            /\ simplexTree' = simplexTree
       ELSE IF Pow2(drag.initialOffsetFromCanvasCenter[1] - offsetFromCanvasCenter[1])
                + Pow2(drag.initialOffsetFromCanvasCenter[2] - offsetFromCanvasCenter[2])
                   <= 25
            THEN /\ Len(vertices) < MaxEditorVertices
                 /\ vertices' = Append(vertices, offsetFromCanvasCenter)
                 /\ simplexTree' = Append(simplexTree,
                                          [ label |-> Len(simplexTree),
                                            children |-> EmptyMap ])
            ELSE UNCHANGED << vertices, simplexTree >>
    /\ drag' = Null
    /\ UNCHANGED << mode, pc, selectedVertices, engineVars >>

\* the button 'New simplex'
NewSimplex ==
    /\ Editing
    /\ selectedVertices = Null
    /\ Len(vertices) > 1
    /\ selectedVertices' = [ items |-> << >> ]
    /\ UNCHANGED << mode, pc, vertices, simplexTree, drag, engineVars >>

\* newSimplexTree[i], Undefined past the end of the array
RootAt(tree, i) == IF i < Len(tree) THEN tree[i + 1] ELSE Undefined

\* newSimplexTree[i] = node, the array growing when i is past its end
SetRoot(tree, i, node) ==
    [ k \in 1..(IF i < Len(tree) THEN Len(tree) ELSE i + 1) |->
        IF k = i + 1 THEN node ELSE IF k <= Len(tree) THEN tree[k] ELSE Undefined ]

\* the loop stops after the root of the smallest vertex
RECURSIVE CreateLoopFirstRootOnly(_, _, _)
CreateLoopFirstRootOnly(newSimplexTree, sortedVertices, i) ==
    IF i >= 1 \/ i >= Len(sortedVertices) THEN newSimplexTree
    ELSE LET vertex == sortedVertices[i + 1]
             root == RootAt(newSimplexTree, vertex)
         IN  CreateLoopFirstRootOnly(
                 SetRoot(newSimplexTree, vertex,
                         IF root = Undefined THEN Undefined
                         ELSE insertSimplex(root, sortedVertices, i + 1)),
                 sortedVertices, i + 1)

\* the for loop of Create, from i on
RECURSIVE CreateLoop(_, _, _)
CreateLoop(newSimplexTree, sortedVertices, i) ==
    IF i >= Len(sortedVertices) THEN newSimplexTree
    ELSE LET vertex == sortedVertices[i + 1]
             root == RootAt(newSimplexTree, vertex)
         IN  CreateLoop(SetRoot(newSimplexTree, vertex,
                                IF root = Undefined THEN Undefined
                                ELSE insertSimplex(root, sortedVertices, i + 1)),
                        sortedVertices, i + 1)

\* insertSimplex reads tree.label of undefined: the handler throws
CreateThrows(tree, sortedVertices) ==
    \E i \in 1..(Len(sortedVertices) - 1) : sortedVertices[i] >= Len(tree)

\* the button 'Create'
Create ==
    /\ Editing
    /\ selectedVertices # Null
    /\ LET sortedVertices == NumSorted(Range(selectedVertices.items))
       IN  IF Len(sortedVertices) = 0
           THEN /\ selectedVertices' = Null
                /\ UNCHANGED << simplexTree, pc >>
           ELSE IF CreateThrows(simplexTree, sortedVertices)
                THEN UNCHANGED << simplexTree, selectedVertices, pc >>
                ELSE /\ simplexTree' = CreateLoop(simplexTree, sortedVertices, 0)
                     /\ selectedVertices' = Null
                     /\ pc' = IF Renders(simplexTree') THEN "editor" ELSE "crashed"
    /\ UNCHANGED << mode, vertices, drag, engineVars >>

\* the button 'Cancel'
CancelSelection ==
    /\ Editing
    /\ selectedVertices # Null
    /\ selectedVertices' = Null
    /\ UNCHANGED << mode, pc, vertices, simplexTree, drag, engineVars >>

\* Simplices.onDelete, size > 0
DeleteSimplex ==
    /\ Editing
    /\ selectedVertices = Null
    /\ \E simplex \in ListedSimplices(simplexTree) :
          /\ Len(simplex) > 1
          /\ simplexTree' = [ i \in 1..Len(simplexTree) |->
                                deleteNonEmptySimplex(simplexTree[i], simplex, 0) ]
    /\ pc' = IF Renders(simplexTree') THEN "editor" ELSE "crashed"
    /\ UNCHANGED << mode, vertices, drag, selectedVertices, engineVars >>

\* Simplices.onDelete, size = 0
DeleteVertex ==
    /\ Editing
    /\ selectedVertices = Null
    /\ \E simplex \in ListedSimplices(simplexTree) :
          /\ Len(simplex) = 1
          /\ LET rest == Without(simplexTree, simplex[1])
             IN  simplexTree' = [ i \in 1..Len(rest) |-> removeVertex(rest[i], simplex[1]) ]
          /\ vertices' = Without(vertices, simplex[1])
    /\ pc' = IF Renders(simplexTree') THEN "editor" ELSE "crashed"
    /\ UNCHANGED << mode, drag, selectedVertices, engineVars >>

(***************************************************************************)
(* Initial states and specifications.                                      *)
(***************************************************************************)
Variants == { "details", "normalised" }

EdgeSet(n) == { e \in (0..(n - 1)) \X (0..(n - 1)) : e[1] < e[2] }

TriangleSet(n) ==
    { t \in (0..(n - 1)) \X (0..(n - 1)) \X (0..(n - 1)) : t[1] < t[2] /\ t[2] < t[3] }

\* the complexes of dimension at most 2 on the vertices 0..n-1 (SimplexDetails reads
\* no simplex of more than three vertices)
Complexes(n) ==
    { { << v >> : v \in 0..(n - 1) } \cup ET[1] \cup ET[2] :
        ET \in { et \in (SUBSET EdgeSet(n)) \X (SUBSET TriangleSet(n)) :
                   \A t \in et[2] : /\ << t[1], t[2] >> \in et[1]
                                    /\ << t[2], t[3] >> \in et[1]
                                    /\ << t[1], t[3] >> \in et[1] } }

InitCommon ==
    /\ filtration = EmptyMap
    /\ columns = << >>
    /\ simplices = << >>
    /\ facets = << >>
    /\ lastIndex = EmptyMap
    /\ emptyBoundary = {}
    /\ columnIndex = 0
    /\ lows = << >>
    /\ cancels = 0
    /\ pass = 1
    /\ saved = [ columns |-> << >>, lastIndex |-> EmptyMap ]
    /\ dim = 0
    /\ groups = EmptyMap
    /\ birthsAndDeaths = << >>
    /\ maxPersistence = 0
    /\ error = "none"
    /\ imageRow = 0
    /\ persistenceImage = << >>
    /\ divByZero = FALSE
    /\ simplexTree = << >>
    /\ drag = Null
    /\ selectedVertices = Null
    /\ editor = "vertex"
    /\ rectangles = << >>
    /\ selectedObject = Null

InitWorker ==
    /\ mode = "worker"
    /\ variant = "details"
    /\ vertices \in SeqsUpTo(Points, MaxV)
    /\ complex = {}
    /\ pc = "start"
    /\ InitCommon

InitStatic ==
    /\ mode = "static"
    /\ variant = "details"
    /\ \E n \in 0..MaxN :
         /\ vertices = [ i \in 1..n |-> << 0, 0 >> ]
         /\ complex \in Complexes(n)
    /\ pc = "call"
    /\ InitCommon

Init == InitWorker \/ InitStatic

Next ==
    \/ Build
    \/ ZeroColumn
    \/ ClaimPivot
    \/ Cancel
    \/ Extract
    \/ HomologyEmpty
    \/ HomologyVertices
    \/ HomologyColumns
    \/ HZeroColumn
    \/ HClaimPivot
    \/ HCancel
    \/ HomologyReturn

Spec == Init /\ [][Next]_vars

NextRerun == Next \/ Rerun

\* the whole worker, on few points, in both variants of the weight
InitImage ==
    /\ mode = "worker"
    /\ variant \in Variants
    /\ vertices \in SeqsUpTo(Points, MaxImagePoints)
    /\ complex = {}
    /\ pc = "start"
    /\ InitCommon

NextImage ==
    \/ Build
    \/ ZeroColumn
    \/ ClaimPivot
    \/ Cancel
    \/ Extract
    \/ RasterRow

SpecImage == InitImage /\ [][NextImage]_vars

SpecRerun == Init /\ [][NextRerun]_vars

\* the editor as App mounts it: no vertex, no simplex
InitEditor ==
    /\ mode = "editor"
    /\ variant = "details"
    /\ vertices = << >>
    /\ complex = {}
    /\ pc = "editor"
    /\ InitCommon

\* every handler of the editor, in any order
NextEditor ==
    \/ \E offset \in MousePositions : mouseDownCanvas(offset)
    \/ \E offset \in MousePositions : mouseMoveWindow(offset)
    \/ \E offset \in MousePositions : mouseUpWindow(offset)
    \/ NewSimplex
    \/ Create
    \/ CancelSelection
    \/ DeleteSimplex
    \/ DeleteVertex

SpecEditor == InitEditor /\ [][NextEditor]_vars

\* the operations on the complex: add a vertex (press and release on a free
\* place), select vertices and create a simplex, delete a simplex, delete a
\* vertex; no vertex is dragged
NextOperations ==
    \/ \E offset \in MousePositions :
          /\ (findIndex(vertices, offset) = -1 \/ selectedVertices # Null)
          /\ mouseDownCanvas(offset)
    \/ \E offset \in MousePositions : mouseUpWindow(offset)
    \/ NewSimplex
    \/ Create
    \/ CancelSelection
    \/ DeleteSimplex
    \/ DeleteVertex

SpecOperations == InitEditor /\ [][NextOperations]_vars

(***************************************************************************)
(* The rasteriser as a function of the pair list: it is run on a list, and *)
(* run again on the list with the persistence of its first pair increased. *)
(***************************************************************************)
\* an entry of birthsAndDeaths with the given birth and persistence (pixels)
PairOf(birth, persistence) ==
    [ filtrationLevels |-> << birth * Scale, (birth + persistence) * Scale >>,
      birthEdges |-> {},
      deathTriangles |-> {} ]

BirthValues == { k * BirthStep : k \in 1..MaxBirthLevel }

PersistenceValues == { k * LevelStep : k \in 1..MaxLevel }

PairValues == { PairOf(b, p) : b \in BirthValues, p \in PersistenceValues }

\* the pairs that accompany the one whose persistence is increased
OtherValues == { PairOf(BirthStep, p) : p \in PersistenceValues }

\* death - birth of an entry
PersistenceOf(pair) == pair.filtrationLevels[2] - pair.filtrationLevels[1]

\* maxPersistence as the extraction loop leaves it
MaxPersistenceOf(pairs) == SetMax({ 0 } \cup { PersistenceOf(pairs[i]) : i \in 1..Len(pairs) })

\* the extractor has produced one or two pairs
InitMass ==
    /\ mode = "worker"
    /\ variant \in Variants
    /\ vertices = << >>
    /\ complex = {}
    /\ filtration = EmptyMap
    /\ columns = << >>
    /\ simplices = << >>
    /\ facets = << >>
    /\ lastIndex = EmptyMap
    /\ emptyBoundary = {}
    /\ columnIndex = 0
    /\ lows = << >>
    /\ cancels = 0
    /\ pass = 1
    /\ saved = [ columns |-> << >>, lastIndex |-> EmptyMap ]
    /\ dim = 0
    /\ groups = EmptyMap
    /\ birthsAndDeaths \in { << t >> : t \in PairValues }
                            \cup { << t, o >> : t \in PairValues, o \in OtherValues }
    /\ maxPersistence = MaxPersistenceOf(birthsAndDeaths)
    /\ error = "none"
    /\ imageRow = 0
    /\ persistenceImage = << >>
    /\ divByZero = FALSE
    /\ simplexTree = << >>
    /\ drag = Null
    /\ selectedVertices = Null
    /\ editor = "vertex"
    /\ rectangles = << >>
    /\ selectedObject = Null
    /\ pc = "raster"

\* the rasteriser is run again with the death of the first pair moved up
Raise ==
    /\ pc = "posted"
    /\ pass = 1
    /\ \E p \in PersistenceValues :
          /\ p * Scale > PersistenceOf(birthsAndDeaths[1])
          /\ LET birth == birthsAndDeaths[1].filtrationLevels[1]
                 pairs == [ birthsAndDeaths EXCEPT
                              ![1].filtrationLevels = << birth, birth + p * Scale >> ]
             IN  /\ birthsAndDeaths' = pairs
                 /\ maxPersistence' = MaxPersistenceOf(pairs)
    /\ saved' = [ pairs |-> birthsAndDeaths, image |-> persistenceImage ]
    /\ pass' = 2
    /\ imageRow' = 0
    /\ persistenceImage' = << >>
    /\ pc' = "raster"
    /\ UNCHANGED << inVars, staticVars, filtration, columns, simplices, lastIndex,
                    columnIndex, lows, cancels, error, divByZero >>

NextMass == RasterRow \/ Raise

SpecMass == InitMass /\ [][NextMass]_vars

(***************************************************************************)
(* Properties.                                                             *)
(***************************************************************************)
V == Len(vertices)

ColumnIndices == 0..(Len(columns) - 1)

\* the boundary set of column c, in either mode
BoundaryOf(c) ==
    IF mode = "worker" THEN columns[c + 1].boundary
                       ELSE columns[c + 1].boundaryFacetIndices

\* C1 - Pivot uniqueness: once the kernel has processed all columns, any two
\* distinct columns whose set is non-empty have different maximum rows, and the
\* pivot map sends the maximum row of each such column to that column (and has
\* no other key).
C1_PivotUniqueness ==
    pc = "reduced" =>
        /\ \A c \in ColumnIndices : \A d \in ColumnIndices :
              (c # d /\ BoundaryOf(c) # {} /\ BoundaryOf(d) # {})
                  => Last(BoundaryOf(c)) # Last(BoundaryOf(d))
        /\ \A c \in ColumnIndices :
              BoundaryOf(c) # {} =>
                  /\ Last(BoundaryOf(c)) \in DOMAIN lastIndex
                  /\ lastIndex[Last(BoundaryOf(c))] = c
        /\ \A r \in DOMAIN lastIndex :
              /\ lastIndex[r] \in ColumnIndices
              /\ BoundaryOf(lastIndex[r]) # {}
              /\ Last(BoundaryOf(lastIndex[r])) = r

\* a finished worker reduction that cancelled and left a triangle pivot
C1_Witness ==
    /\ pc = "reduced"
    /\ mode = "worker"
    /\ cancels > 0
    /\ \E r \in DOMAIN lastIndex : r >= V
    /\ \E c \in ColumnIndices : BoundaryOf(c) = {}

\* C2 - Pair validity: every emitted pair has birth # death and death >= birth.
C2_PairValidity ==
    \A i \in 1..Len(birthsAndDeaths) :
        /\ birthsAndDeaths[i].filtrationLevels[1] # birthsAndDeaths[i].filtrationLevels[2]
        /\ birthsAndDeaths[i].filtrationLevels[2] >= birthsAndDeaths[i].filtrationLevels[1]

\* pairs were emitted, and a zero-persistence pivot entry was filtered out
C2_Witness ==
    /\ pc = "raster"
    /\ Len(birthsAndDeaths) >= 1
    /\ \E r \in DOMAIN lastIndex :
          /\ r > V
          /\ columns[r - V + 1].filtrationLevel = columns[lastIndex[r] + 1].filtrationLevel

\* squared distance of two points, in square pixels
D2(p, q) == (p[1] - q[1]) * (p[1] - q[1]) + (p[2] - q[2]) * (p[2] - q[2])

\* vs[a], vs[b], vs[c], vs[d] are the corners of a square, in cyclic order
SquareCorners(vs, a, b, c, d) ==
    /\ { a, b, c, d } = 1..4
    /\ D2(vs[a], vs[b]) > 0
    /\ D2(vs[b], vs[c]) = D2(vs[a], vs[b])
    /\ D2(vs[c], vs[d]) = D2(vs[a], vs[b])
    /\ D2(vs[d], vs[a]) = D2(vs[a], vs[b])
    /\ D2(vs[a], vs[c]) = 2 * D2(vs[a], vs[b])
    /\ D2(vs[b], vs[d]) = 2 * D2(vs[a], vs[b])

\* C3 - Persistence of a square loop: for 4 points at the corners of a square
\* (in any order) the worker emits exactly one pair, born at the side length
\* and dying at the diagonal length.
C3_SquareLoop ==
    (pc \in { "raster", "failed" } /\ mode = "worker" /\ Len(vertices) = 4) =>
        \A a \in 1..4 : \A b \in 1..4 : \A c \in 1..4 : \A d \in 1..4 :
            SquareCorners(vertices, a, b, c, d) =>
                /\ pc = "raster"
                /\ Len(birthsAndDeaths) = 1
                /\ birthsAndDeaths[1].filtrationLevels =
                      << Distance(vertices[a], vertices[b]),
                         Distance(vertices[a], vertices[c]) >>

\* the worker has finished the extraction for the corners of a square
C3_Witness ==
    /\ pc = "raster"
    /\ Len(vertices) = 4
    /\ \E a \in 1..4 : \E b \in 1..4 : \E c \in 1..4 : \E d \in 1..4 :
          SquareCorners(vertices, a, b, c, d)
    /\ Len(birthsAndDeaths) = 1

Beta0 == Len(groups[0].cycles) - Len(groups[1].boundaries)

Beta1 == Len(groups[1].cycles) - Len(groups[2].boundaries)

HollowTriangle ==
    { << 0 >>, << 1 >>, << 2 >>, << 0, 1 >>, << 0, 2 >>, << 1, 2 >> }

FilledTriangle == HollowTriangle \cup { << 0, 1, 2 >> }

\* C4 - Betti sanity: with beta0 = |Z0| - |B0| and beta1 = |Z1| - |B1| as
\* SimplexDetails computes them, the filled triangle has beta0 = 1, beta1 = 0
\* and the hollow triangle has beta0 = 1, beta1 = 1.
C4_BettiTriangles ==
    (mode = "static" /\ pc = "done") =>
        /\ complex = FilledTriangle => (Beta0 = 1 /\ Beta1 = 0)
        /\ complex = HollowTriangle => (Beta0 = 1 /\ Beta1 = 1)

\* SimplexDetails has finished on the hollow triangle and found one 1-cycle
C4_Witness ==
    /\ mode = "static"
    /\ pc = "done"
    /\ complex = HollowTriangle
    /\ Len(groups[1].cycles) = 1
    /\ Len(groups[1].boundaries) = 2

\* C5 - Termination of the reduction: within the reduction of one column the
\* successive values of low strictly decrease (the set of the column being
\* empty counts as low = -1), so the inner loop runs at most once per row.
C5_LowStrictlyDecreases ==
    /\ \A i \in 1..(Len(lows) - 1) : lows[i + 1] < lows[i]
    /\ (pc = "reduce" /\ lows # << >>) => Last(BoundaryOf(columnIndex)) < lows[Len(lows)]
    /\ Len(lows) <= Len(columns) + Len(vertices) + Len(facets)

\* a column that needed three cancellations
C5_Witness ==
    /\ pc = "reduce"
    /\ Len(lows) >= 3

\* C6 - Idempotence of reduction: a second run of the kernel, with an empty
\* pivot map, on the columns left by the first run performs no
\* symmetric-difference step, leaves every column unchanged and ends with the
\* pivot map of the first run.
C6_RerunIsNoOp ==
    pass = 2 =>
        /\ cancels = 0
        /\ columns = saved.columns
        /\ pc = "reduced" => lastIndex = saved.lastIndex

\* a second run has ended on columns that the first run had to cancel
C6_Witness ==
    /\ pass = 2
    /\ pc = "reduced"
    /\ mode = "worker"
    /\ \E c \in ColumnIndices : columns[c + 1].simplices \ { c } # {}
    /\ Cardinality(DOMAIN lastIndex) >= 3

\* the filtration value the builder gave to an edge
EdgeLevel(e) ==
    CHOOSE d \in DOMAIN filtration : e \in Range(filtration[d].edges)

\* C7 - Filtration monotonicity: the filtration value of every triangle
\* (i, j, k) is at least the value of each of its edges (i, j), (j, k), (i, k).
C7_FiltrationMonotone ==
    \A d \in DOMAIN filtration :
        \A t \in Range(filtration[d].triangles) :
            /\ EdgeLevel(<< t[1], t[2] >>) <= d
            /\ EdgeLevel(<< t[2], t[3] >>) <= d
            /\ EdgeLevel(<< t[1], t[3] >>) <= d

\* a triangle that appears strictly after one of its edges
C7_Witness ==
    \E d \in DOMAIN filtration :
        \E t \in Range(filtration[d].triangles) :
            EdgeLevel(<< t[1], t[2] >>) < d

\* C8 - Empty input: with no emitted pair (no point, fewer than 3 points, or only
\* zero-persistence pivot entries) every cell of every row pushed is 0, the posted
\* image is GridSize x GridSize, and no division by zero is performed, in either
\* variant of the weight.
C8_EmptyImage ==
    /\ Len(vertices) < 3 => (birthsAndDeaths = << >> /\ pc # "failed")
    /\ birthsAndDeaths = << >> =>
          \A i \in 1..Len(persistenceImage) :
              \A j \in 1..Len(persistenceImage[i]) : persistenceImage[i][j] = 0
    /\ \A i \in 1..Len(persistenceImage) : Len(persistenceImage[i]) = GridSize
    /\ pc = "posted" => Len(persistenceImage) = GridSize
    /\ ~divByZero

\* the normalising worker has posted the image of three points whose only edge
\* pivot has zero persistence
C8_Witness ==
    /\ pc = "posted"
    /\ variant = "normalised"
    /\ Len(vertices) = 3
    /\ \E r \in DOMAIN lastIndex : r > V
    /\ birthsAndDeaths = << >>
    /\ maxPersistence = 0
    /\ Len(persistenceImage) = GridSize

\* C9 - Pivot stability: during a reduction no step overwrites or removes an
\* entry of the pivot map (a map holds at most one column per row).
C9_PivotStable ==
    [][ pc = "reduce" =>
          \A r \in DOMAIN lastIndex :
              r \in DOMAIN lastIndex' /\ lastIndex'[r] = lastIndex[r] ]_vars

\* the reduction goes on after pivots were claimed and a column met a claimed row
C9_Witness ==
    /\ pc = "reduce"
    /\ pass = 1
    /\ Cardinality(DOMAIN lastIndex) >= 2
    /\ lows # << >>
    /\ Last(BoundaryOf(columnIndex)) \in DOMAIN lastIndex

\* the pairs the extractor owes: one for each pivot entry with low >= V whose
\* birth and death values differ, in the order of the entries
RECURSIVE EdgePivotPairs(_)
EdgePivotPairs(entries) ==
    IF entries = << >> THEN << >>
    ELSE LET last == Head(entries)[1]
             col == Head(entries)[2]
         IN  (IF last >= V /\ columns[last - V + 1].filtrationLevel
                                  # columns[col + 1].filtrationLevel
              THEN << << columns[last - V + 1].filtrationLevel,
                         columns[col + 1].filtrationLevel >> >>
              ELSE << >>) \o EdgePivotPairs(Tail(entries))

\* C10 - Extraction range: the extractor emits a pair for a pivot entry
\* (low, col) exactly when low >= V and the value of column low - V differs
\* from the value of column col; entries with low < V produce no pair.
C10_ExtractionRange ==
    (mode = "worker" /\ pc = "raster") =>
        [ i \in 1..Len(birthsAndDeaths) |-> birthsAndDeaths[i].filtrationLevels ]
            = EdgePivotPairs(Entries(lastIndex))

\* an extraction over vertex pivots, a filtered edge pivot and an emitted pair
C10_Witness ==
    /\ mode = "worker"
    /\ pc = "raster"
    /\ Len(birthsAndDeaths) >= 1
    /\ Len(vertices) = MaxV
    /\ \E r \in DOMAIN lastIndex : r < V
    /\ \E r \in DOMAIN lastIndex :
          /\ r >= V
          /\ columns[r - V + 1].filtrationLevel = columns[lastIndex[r] + 1].filtrationLevel

\* the index of simplex s in the worker's simplices array, or -1
IndexOf(s) ==
    IF \E k \in 1..Len(simplices) : simplices[k] = s
    THEN (CHOOSE k \in 1..Len(simplices) : simplices[k] = s) - 1
    ELSE -1

\* the three edges of a triangle, as the indexer forms them
EdgesOf(t) == { << t[1], t[2] >>, << t[2], t[3] >>, << t[1], t[3] >> }

\* C11 - Witness arity assertions never fire: for every pivot entry that
\* passes the vertex-pivot filter, every row left in the death column's
\* boundary set maps (after subtracting V) to an edge and every index of its
\* membership set maps to a triangle, so the extraction throws nothing.
C11_WitnessArity ==
    /\ error = "none"
    /\ pc # "failed"
    /\ (mode = "worker" /\ pc \in { "reduced", "raster" }) =>
          \A r \in DOMAIN lastIndex :
              ~Skips(r, V) =>
                  /\ \A i \in columns[lastIndex[r] + 1].boundary :
                        Len(SimplexAt(simplices, i - V)) = 2
                  /\ \A i \in columns[lastIndex[r] + 1].simplices :
                        Len(SimplexAt(simplices, i)) = 3

\* the extraction has gone through a death column that is the sum of two
\* triangles and whose boundary has four edges
C11_Witness ==
    /\ mode = "worker"
    /\ pc = "raster"
    /\ \E r \in DOMAIN lastIndex :
          /\ ~Skips(r, V)
          /\ Cardinality(columns[lastIndex[r] + 1].simplices) >= 2
          /\ Cardinality(columns[lastIndex[r] + 1].boundary) >= 4

\* the worker has built the columns and has not reduced any of them yet
FreshColumns ==
    /\ mode = "worker"
    /\ pc \in { "reduce", "reduced" }
    /\ pass = 1
    /\ columnIndex = 0
    /\ lows = << >>

\* C12 - Edge lookup always succeeds: when the column of a triangle is built,
\* each of its three edges already has a column (an earlier index in the
\* arrays), so edgeToColumnIndex.get never returns undefined and no boundary
\* set holds NaN.  (The arrays are not written after the indexer: their
\* order is looked at in the state the indexer leaves.)
C12_EdgeLookup ==
    /\ mode = "worker" => \A c \in ColumnIndices : NaN \notin columns[c + 1].boundary
    /\ FreshColumns =>
          \A c \in ColumnIndices :
              Len(simplices[c + 1]) = 3 =>
                  \A e \in EdgesOf(simplices[c + 1]) :
                      IndexOf(e) >= 0 /\ IndexOf(e) < c

\* columns were built for a triangle that shares its filtration value with
\* one of its edges and has another edge of a smaller value
C12_Witness ==
    /\ mode = "worker"
    /\ pc = "reduce"
    /\ \E c \in ColumnIndices :
          /\ Len(simplices[c + 1]) = 3
          /\ \E e \in EdgesOf(simplices[c + 1]) :
                columns[IndexOf(e) + 1].filtrationLevel = columns[c + 1].filtrationLevel
          /\ \E e \in EdgesOf(simplices[c + 1]) :
                columns[IndexOf(e) + 1].filtrationLevel < columns[c + 1].filtrationLevel

\* the boundary set the indexer gives to the simplex of column s, read off the
\* simplices (and facets) arrays
OriginalBoundary(s) ==
    IF mode = "worker"
    THEN IF Len(simplices[s + 1]) = 2
         THEN { simplices[s + 1][1], simplices[s + 1][2] }
         ELSE { V + IndexOf(e) : e \in EdgesOf(simplices[s + 1]) }
    ELSE { FacetIndex(facets, Facet(simplices[s + 1], k)) :
               k \in 0..(Len(simplices[s + 1]) - 1) }

\* the membership set of column c, in either mode
MembersOf(c) ==
    IF mode = "worker" THEN columns[c + 1].simplices ELSE columns[c + 1].simplexIndices

\* mod-2 sum of the sets original[s] for the simplices (column indices) s in S
Mod2Sum(S, original) ==
    { r \in UNION { original[s] : s \in S } :
          Cardinality({ s \in S : r \in original[s] }) % 2 = 1 }

\* the facets of a simplex given by its sorted vertex list
FacetsOf(s) == { Facet(s, k) : k \in 0..(Len(s) - 1) }

\* mod-2 boundary of a chain given as a set of simplices
Mod2Boundary(chain) ==
    { f \in UNION { FacetsOf(s) : s \in chain } :
          Cardinality({ s \in chain : f \in FacetsOf(s) }) % 2 = 1 }

\* C16 - Membership-set invariant: in every state of the witness-carrying
\* kernel (worker and homologyGroups) the boundary set of each column is the
\* mod-2 sum of the original boundary sets of the simplices in its membership
\* set; so every reported cycle generator has empty mod-2 boundary and the
\* birthEdges of every pair are the mod-2 boundary of its deathTriangles.
\* (A step writes the column under reduction only: that column is looked at
\* in every state of the reduction, and all columns once it has ended.)
C16_MembershipSet ==
    /\ pc = "reduce" =>
          LET original == [ s \in MembersOf(columnIndex) |-> OriginalBoundary(s) ]
          IN  BoundaryOf(columnIndex) = Mod2Sum(MembersOf(columnIndex), original)
    /\ pc = "reduced" =>
          LET original == [ s \in ColumnIndices |-> OriginalBoundary(s) ]
          IN  \A c \in ColumnIndices : BoundaryOf(c) = Mod2Sum(MembersOf(c), original)
    /\ \A p \in DOMAIN groups :
          p >= 1 => \A i \in 1..Len(groups[p].cycles) :
                        /\ groups[p].cycles[i] # {}
                        /\ Mod2Boundary(groups[p].cycles[i]) = {}
    /\ \A i \in 1..Len(birthsAndDeaths) :
          birthsAndDeaths[i].birthEdges = Mod2Boundary(birthsAndDeaths[i].deathTriangles)

\* a pair was emitted whose death witness is a sum of triangles, each
\* contributing edges that cancel
C16_Witness ==
    /\ mode = "worker"
    /\ pc = "raster"
    /\ \E i \in 1..Len(birthsAndDeaths) :
          /\ Cardinality(birthsAndDeaths[i].deathTriangles) >= 2
          /\ Cardinality(birthsAndDeaths[i].birthEdges)
                < 3 * Cardinality(birthsAndDeaths[i].deathTriangles)

\* the columns the pivot map holds
PivotColumns == { lastIndex[r] : r \in DOMAIN lastIndex }

\* C17 - Cycle/boundary partition: when homologyGroups runs on p-simplices with
\* p >= 1, every column the loop has finished is in exactly one of
\* emptyBoundary (the cycles) and the values of lastIndex (the boundaries); so
\* cycles.length + boundaries.length is the number of input simplices and
\* every reported boundary generator is non-empty.
C17_Partition ==
    /\ (mode = "static" /\ pc \in { "reduce", "reduced" }) =>
          /\ emptyBoundary \cap PivotColumns = {}
          /\ emptyBoundary \cup PivotColumns = 0..(columnIndex - 1)
          /\ Cardinality(DOMAIN lastIndex) = Cardinality(PivotColumns)
          /\ pc = "reduced" => columnIndex = Len(simplices)
    /\ \A p \in DOMAIN groups :
          p >= 1 =>
              /\ Len(groups[p].cycles) + Len(groups[p].boundaries)
                    = Cardinality({ s \in complex : Len(s) = p + 1 })
              /\ \A i \in 1..Len(groups[p].boundaries) : groups[p].boundaries[i] # {}

\* homologyGroups returned both cycles and boundaries for the edges of the complex
C17_Witness ==
    /\ mode = "static"
    /\ 1 \in DOMAIN groups
    /\ Len(groups[1].cycles) >= 2
    /\ Len(groups[1].boundaries) >= 2

\* C18 - Indexer ordering and boundary contents: columns come in non-decreasing
\* filtration value with the edges of a value before its triangles; the
\* initial boundary set of an edge column is its two vertex indices (in
\* [0, V)) and that of a triangle column c is three distinct rows V + e, e
\* being the column indices of its three edges, each with e < c.
C18_IndexerOrder ==
    /\ mode = "worker" => Len(simplices) = Len(columns)
    /\ FreshColumns =>
          \A c \in ColumnIndices : \A d \in ColumnIndices :
                c < d =>
                    /\ columns[c + 1].filtrationLevel <= columns[d + 1].filtrationLevel
                    /\ ~ ( /\ columns[c + 1].filtrationLevel = columns[d + 1].filtrationLevel
                           /\ Len(simplices[c + 1]) = 3
                           /\ Len(simplices[d + 1]) = 2 )
    /\ FreshColumns =>
          \A c \in ColumnIndices :
              IF Len(simplices[c + 1]) = 2
              THEN /\ columns[c + 1].boundary = { simplices[c + 1][1], simplices[c + 1][2] }
                   /\ Cardinality(columns[c + 1].boundary) = 2
                   /\ columns[c + 1].boundary \subseteq 0..(V - 1)
              ELSE /\ Len(simplices[c + 1]) = 3
                   /\ columns[c + 1].boundary
                         = { V + IndexOf(e) : e \in EdgesOf(simplices[c + 1]) }
                   /\ Cardinality(columns[c + 1].boundary) = 3
                   /\ \A e \in EdgesOf(simplices[c + 1]) : IndexOf(e) \in 0..(c - 1)

\* freshly built columns of four points with three different filtration
\* values, triangles among them
C18_Witness ==
    /\ FreshColumns
    /\ V = 4
    /\ Cardinality({ columns[c + 1].filtrationLevel : c \in ColumnIndices }) >= 3
    /\ \E c \in ColumnIndices : \E d \in ColumnIndices :
          /\ c < d
          /\ Len(simplices[c + 1]) = 3
          /\ Len(simplices[d + 1]) = 2

\* the boundary set and the membership set of column c in the array cols
BoundaryIn(cols, c) ==
    IF mode = "worker" THEN cols[c + 1].boundary ELSE cols[c + 1].boundaryFacetIndices

MembersIn(cols, c) ==
    IF mode = "worker" THEN cols[c + 1].simplices ELSE cols[c + 1].simplexIndices

\* the elements present in exactly one of the two sets
ExactlyOne(A, B) == { x \in A \cup B : (x \in A) # (x \in B) }

\* C19 - Reduction step effect: one cancellation of the current column c
\* against the column p that claims c's low replaces c's sets by the exact
\* symmetric difference of c's and p's sets and leaves p's sets, every other
\* column and every entry of the pivot map unchanged.
C19_StepEffect ==
    [][ cancels' = cancels + 1 =>
          LET c == columnIndex
              p == lastIndex[Last(BoundaryOf(c))]
          IN  /\ p # c
              /\ Len(columns') = Len(columns)
              /\ BoundaryIn(columns', c) = ExactlyOne(BoundaryOf(c), BoundaryOf(p))
              /\ MembersIn(columns', c) = ExactlyOne(MembersOf(c), MembersOf(p))
              /\ \A d \in ColumnIndices : d # c => columns'[d + 1] = columns[d + 1]
              /\ lastIndex' = lastIndex
              /\ columnIndex' = columnIndex ]_vars

\* a triangle column after a cancellation in which rows vanished and rows
\* were added
C19_Witness ==
    /\ mode = "worker"
    /\ pc = "reduce"
    /\ lows # << >>
    /\ Len(simplices[columnIndex + 1]) = 3
    /\ Cardinality(MembersOf(columnIndex)) >= 2
    /\ Cardinality(BoundaryOf(columnIndex)) >= 4

\* C20 - Small column sets, as claimed: in every reachable state of the
\* filtration-mode kernel the boundary set of a triangle column has at most 3
\* entries and that of an edge column at most 2.
C20_SmallSets ==
    (mode = "worker" /\ pc # "start") =>
        \A c \in ColumnIndices :
            Cardinality(columns[c + 1].boundary)
                <= (IF Len(simplices[c + 1]) = 3 THEN 3 ELSE 2)

\* column c has not been touched by the reduction yet
Unreduced(c) == c > columnIndex \/ (c = columnIndex /\ pc = "reduce" /\ lows = << >>)

\* C20 (amended) - the boundary set of an edge column has at most 2 entries in
\* every reachable state; the boundary set of a triangle column has exactly 3
\* entries until the reduction reaches the column, and from then on it is a
\* set of edge rows that may hold more than 3 entries.
C20_SmallSetsAmended ==
    (mode = "worker" /\ pc # "start") =>
        \A c \in ColumnIndices :
            IF Len(simplices[c + 1]) = 2
            THEN Cardinality(columns[c + 1].boundary) <= 2
            ELSE /\ Unreduced(c) => Cardinality(columns[c + 1].boundary) = 3
                 /\ columns[c + 1].boundary \subseteq
                       { V + e : e \in { d \in ColumnIndices : Len(simplices[d + 1]) = 2 } }

\* a reduced triangle column holds four rows, an edge column was cancelled,
\* and a triangle column is still waiting with its three rows
C20_Witness ==
    /\ mode = "worker"
    /\ pc = "reduce"
    /\ \E c \in ColumnIndices :
          Len(simplices[c + 1]) = 3 /\ Cardinality(columns[c + 1].boundary) >= 4
    /\ \E c \in ColumnIndices :
          Len(simplices[c + 1]) = 2 /\ columns[c + 1].simplices \ { c } # {}
    /\ \E c \in ColumnIndices : Len(simplices[c + 1]) = 3 /\ Unreduced(c)

\* sum over the cells of row i of image a minus image b, from cell j on
RECURSIVE RowDifference(_, _, _, _)
RowDifference(a, b, i, j) ==
    IF j > Len(a[i]) THEN 0
    ELSE (a[i][j] - b[i][j]) + RowDifference(a, b, i, j + 1)

\* sum of all cells of image a minus sum of all cells of image b, from row i on
RECURSIVE ImageDifference(_, _, _)
ImageDifference(a, b, i) ==
    IF i > Len(a) THEN 0
    ELSE RowDifference(a, b, i, 1) + ImageDifference(a, b, i + 1)

\* both images of the two runs are complete
BothPosted == pass = 2 /\ pc = "posted" /\ "image" \in DOMAIN saved

\* C15 - Image mass, as claimed: holding the other pairs fixed, increasing one
\* pair's persistence strictly increases the sum of all cells of the image.
C15_ImageMass ==
    BothPosted => ImageDifference(persistenceImage, saved.image, 1) > 0

\* the Gaussian of the raised pair lies in the image: its birth is at most
\* ImageSize and its persistence at most ImageSize - 3 * Sigma pixels
InsideImage(pair) ==
    /\ pair.filtrationLevels[1] <= ImageSize * Scale
    /\ PersistenceOf(pair) <= (ImageSize - 3 * Sigma) * Scale

\* C15 (amended) - in the worker that weighs a pair by its raw persistence,
\* holding the other pairs fixed, increasing one pair's persistence strictly
\* increases the sum of all cells of the image as long as the pair's point
\* (birth, persistence) stays inside the image, at least 3 sigma below its
\* upper edge.
C15_ImageMassAmended ==
    (BothPosted /\ variant = "details" /\ InsideImage(birthsAndDeaths[1]))
        => ImageDifference(persistenceImage, saved.image, 1) > 0

\* both images are there for a list of two pairs whose first pair was raised
\* and stays inside the image, in the raw-weight worker
C15_Witness ==
    /\ BothPosted
    /\ variant = "details"
    /\ Len(birthsAndDeaths) = 2
    /\ InsideImage(birthsAndDeaths[1])
    /\ PersistenceOf(birthsAndDeaths[1]) >= PersistenceOf(saved.pairs[1]) + LevelStep * Scale
    /\ ImageDifference(persistenceImage, saved.image, 1) > 0

\* the non-empty faces of a simplex given by its vertex list: the
\* subsequences obtained by dropping vertices
RECURSIVE FacesOf(_)
FacesOf(s) ==
    IF Len(s) <= 1 THEN { s }
    ELSE { s } \cup UNION { FacesOf(Facet(s, k)) : k \in 0..(Len(s) - 1) }

\* C13 - Face closure of the edited complex: after any sequence of editor
\* operations (add vertex, create simplex from a selected vertex set, delete a
\* simplex, delete a vertex) the tree renders and the set of simplices
\* insertSimplices enumerates from it contains every non-empty face of each of
\* its simplices.
C13_FaceClosure ==
    mode = "editor" =>
        /\ pc = "editor"
        /\ Renders(simplexTree)
        /\ \A s \in ListedSimplices(simplexTree) :
              FacesOf(s) \subseteq ListedSimplices(simplexTree)

\* a simplex of two vertices was deleted from a complex that had a triangle:
\* the three vertices and two of the edges are left
C13_Witness ==
    /\ mode = "editor"
    /\ Len(simplexTree) = 3
    /\ Cardinality(ListedSimplices(simplexTree)) = 5
    /\ selectedVertices = Null

\* C14 - Contiguous zero-based vertex indices: after any sequence of editor
\* events simplexTree.length equals vertices.length, the root at position i
\* has label i, and every label in the tree lies in [0, vertices.length).
C14_ContiguousIndices ==
    mode = "editor" =>
        /\ Len(simplexTree) = Len(vertices)
        /\ Renders(simplexTree)
        /\ \A i \in 1..Len(simplexTree) : simplexTree[i].label = i - 1
        /\ \A s \in ListedSimplices(simplexTree) :
              \A k \in 1..Len(s) : s[k] \in 0..(Len(vertices) - 1)

\* the simplices on the vertex sets of S: its non-empty subsets, as sorted
\* vertex lists
SimplicesOn(S) == { NumSorted(T) : T \in (SUBSET S) \ { {} } }

\* C21 - Simplex insertion: Create with a non-empty selected vertex set S on a
\* complex K yields exactly K together with all non-empty subsets of S: the
\* simplex and all its faces are inserted, no simplex of K is removed and no
\* other simplex is added.
C21_Insertion ==
    [][ (Create /\ selectedVertices # Null /\ selectedVertices' = Null)
          => (Len(selectedVertices.items) > 0
                => /\ pc' = "editor"
                   /\ ListedSimplices(simplexTree')
                        = ListedSimplices(simplexTree)
                            \cup SimplicesOn(Range(selectedVertices.items))) ]_vars

\* a triangle was created: the tree lists all seven simplices on three vertices
C21_Witness ==
    /\ mode = "editor"
    /\ pc = "editor"
    /\ selectedVertices = Null
    /\ ListedSimplices(simplexTree) = SimplicesOn({ 0, 1, 2 })

\* s is a face of t (both are sorted vertex lists)
IsFace(s, t) == Range(s) \subseteq Range(t)

\* C22 - Simplex deletion: deleting a listed simplex s with at least 2 vertices
\* from a complex K yields exactly the simplices of K that do not contain s as
\* a face: s and all its cofaces are removed and nothing else; no root becomes
\* null and no vertex is removed.
C22_Deletion ==
    [][ DeleteSimplex =>
          \A s \in ListedSimplices(simplexTree) :
             ( /\ Len(s) >= 2
               /\ simplexTree' = [ i \in 1..Len(simplexTree) |->
                                     deleteNonEmptySimplex(simplexTree[i], s, 0) ] )
             => /\ ListedSimplices(simplexTree')
                     = { t \in ListedSimplices(simplexTree) : ~IsFace(s, t) }
                /\ Len(simplexTree') = Len(simplexTree)
                /\ \A i \in 1..Len(simplexTree') :
                      /\ simplexTree'[i] # Null
                      /\ simplexTree'[i].label = i - 1
                /\ vertices' = vertices
                /\ pc' = "editor" ]_vars

\* three vertices of which 1 and 2 are not joined: what deleting the edge
\* [1, 2] of a triangle leaves
C22_Witness ==
    /\ mode = "editor"
    /\ pc = "editor"
    /\ selectedVertices = Null
    /\ Len(vertices) = 3
    /\ ListedSimplices(simplexTree) = SimplicesOn({ 0, 1, 2 }) \ { << 1, 2 >>, << 0, 1, 2 >> }

\* the simplex t with every label greater than v decreased by 1
Relabelled(t, v) == [ k \in 1..Len(t) |-> IF t[k] > v THEN t[k] - 1 ELSE t[k] ]

\* C23 - Vertex deletion: deleting vertex v from a complex K yields exactly the
\* simplices of K that do not contain v, with every label greater than v
\* decreased by 1 and all other labels unchanged; the vertex coordinate list
\* loses exactly its entry v and keeps the order of the rest.
C23_VertexDeletion ==
    [][ DeleteVertex =>
          \E v \in 0..(Len(vertices) - 1) :
             /\ ListedSimplices(simplexTree')
                  = { Relabelled(t, v) :
                        t \in { u \in ListedSimplices(simplexTree) :
                                  v \notin Range(u) } }
             /\ Len(vertices') = Len(vertices) - 1
             /\ \A k \in 1..Len(vertices') :
                   vertices'[k] = IF k <= v THEN vertices[k] ELSE vertices[k + 1]
             /\ pc' = "editor" ]_vars

\* two joined vertices, the first of them to the right of the second: what
\* deleting a vertex of a drawing with three vertices leaves
C23_Witness ==
    /\ mode = "editor"
    /\ pc = "editor"
    /\ selectedVertices = Null
    /\ Len(vertices) = 2
    /\ vertices[1][1] > vertices[2][1]
    /\ ListedSimplices(simplexTree) = SimplicesOn({ 0, 1 })

\* the edge columns and the triangle columns of the worker
EdgeColumns == { c \in ColumnIndices : Len(simplices[c + 1]) = 2 }

TriangleColumns == { c \in ColumnIndices : Len(simplices[c + 1]) = 3 }

\* C24 - Every loop dies: for every set of V >= 1 points, every edge column
\* that reduces to the empty set has its row (V + its column index) claimed as
\* the pivot of exactly one triangle column by the end of reduction, so the
\* number of pivot-map entries with low >= V equals C(V,2) - (V-1).
C24_EveryLoopDies ==
    (mode = "worker" /\ pc = "reduced" /\ V >= 1) =>
        /\ \A c \in EdgeColumns :
              BoundaryOf(c) = {} =>
                  /\ V + c \in DOMAIN lastIndex
                  /\ lastIndex[V + c] \in TriangleColumns
                  /\ Cardinality({ t \in TriangleColumns :
                                     Last(BoundaryOf(t)) = V + c }) = 1
        /\ Cardinality({ r \in DOMAIN lastIndex : r >= V })
              = (V * (V - 1)) \div 2 - (V - 1)

\* four points: three edge columns were emptied and each of their rows is the
\* pivot of a triangle column
C24_Witness ==
    /\ mode = "worker"
    /\ pc = "reduced"
    /\ V = 4
    /\ Cardinality({ c \in EdgeColumns : BoundaryOf(c) = {} }) = 3
    /\ Cardinality({ r \in DOMAIN lastIndex : r >= V }) = 3

\* the edge columns whose set is not empty
LiveEdgeColumns == { c \in EdgeColumns : BoundaryOf(c) # {} }

\* C25 - Component deaths: for every set of V >= 1 points, exactly V-1 edge
\* columns end with a non-empty set and enter the pivot map, all with low < V,
\* and every other edge column reduces to the empty set; no triangle column
\* ever has low < V.
C25_ComponentDeaths ==
    (mode = "worker" /\ pc \in { "reduce", "reduced" } /\ V >= 1) =>
        /\ \A t \in TriangleColumns :
              BoundaryOf(t) = {} \/ Last(BoundaryOf(t)) >= V
        /\ pc = "reduced" =>
              /\ Cardinality(LiveEdgeColumns) = V - 1
              /\ Cardinality(EdgeColumns \ LiveEdgeColumns)
                    = Cardinality(EdgeColumns) - (V - 1)
              /\ \A c \in LiveEdgeColumns :
                    /\ Last(BoundaryOf(c)) < V
                    /\ Last(BoundaryOf(c)) \in DOMAIN lastIndex
                    /\ lastIndex[Last(BoundaryOf(c))] = c
              /\ \A r \in DOMAIN lastIndex :
                    r < V => lastIndex[r] \in LiveEdgeColumns

\* three points: two edge columns keep their set and hold the pivots below V,
\* the third was emptied, and the triangle column has its pivot above V
C25_Witness ==
    /\ mode = "worker"
    /\ pc = "reduced"
    /\ V = 3
    /\ Cardinality(LiveEdgeColumns) = 2
    /\ Cardinality({ r \in DOMAIN lastIndex : r < V }) = 2
    /\ \E t \in TriangleColumns : Last(BoundaryOf(t)) > V

\* the vertices joined to a vertex of S by a path of edges of the complex
RECURSIVE Joined(_)
Joined(S) ==
    LET T == S \cup UNION { Range(e) : e \in { x \in complex : Len(x) = 2 /\ Range(x) \cap S # {} } }
    IN  IF T = S THEN S ELSE Joined(T)

\* the connected components of the graph of the vertices and edges of the complex
Components == { Joined({ s[1] }) : s \in { x \in complex : Len(x) = 1 } }

\* C26 - beta0 counts components: for every face-closed complex on a bounded
\* vertex set, homologyGroups(vertices).cycles.length -
\* homologyGroups(edges).boundaries.length equals the number of connected
\* components of the graph formed by the complex's vertices and edges.
C26_Beta0Components ==
    (mode = "static" /\ pc = "done") => Beta0 = Cardinality(Components)

\* a complex of two components, one of them with a loop of three edges, has
\* been analysed
C26_Witness ==
    /\ mode = "static"
    /\ pc = "done"
    /\ Len(vertices) = 4
    /\ Cardinality(Components) = 2
    /\ Cardinality({ x \in complex : Len(x) = 2 }) = 3
    /\ Beta0 = 2

(***************************************************************************)
(* The two kernels on the same message: the witness-carrying worker runs   *)
(* to its pairs, then the plain worker is given the same points.           *)
(***************************************************************************)
\* onmessage of the plain worker, with the vertices the other worker was sent
RunPlain ==
    /\ mode = "worker"
    /\ variant = "details"
    /\ pc = "raster"
    /\ pass = 1
    /\ saved' = [ columns |-> columns, lastIndex |-> lastIndex,
                  pairs |-> birthsAndDeaths, cancels |-> cancels ]
    /\ variant' = "normalised"
    /\ pass' = 2
    /\ pc' = "start"
    /\ UNCHANGED << mode, vertices, editorVars, staticVars, filtration, columns, simplices,
                    lastIndex, columnIndex, lows, cancels, outVars >>

NextVariants ==
    \/ Build
    \/ ZeroColumn
    \/ ClaimPivot
    \/ Cancel
    \/ Extract
    \/ RunPlain

SpecVariants == InitWorker /\ [][NextVariants]_vars

\* the (birth, death) values of a list of pairs
ValuesOf(pairs) == [ i \in 1..Len(pairs) |-> pairs[i].filtrationLevels ]

EmittedEntries ==
    LET Emitted(e) == /\ e[1] > V
                      /\ columns[e[1] - V + 1].filtrationLevel
                            # columns[e[2] + 1].filtrationLevel
    IN  SelectSeq(Entries(lastIndex), Emitted)

\* C28 - Witnesses match the reported values: for every emitted pair,
\* birthEdges contains the edge of column low - V and no edge with a larger
\* column index, and deathTriangles contains the triangle of column col and no
\* triangle with a larger column index; so the reported birth is the maximum
\* filtration value over birthEdges and the reported death is the maximum over
\* deathTriangles.
C28_WitnessValues ==
    (mode = "worker" /\ variant = "details" /\ pc = "raster") =>
        /\ Len(birthsAndDeaths) = Len(EmittedEntries)
        /\ \A i \in 1..Len(birthsAndDeaths) :
              LET pair == birthsAndDeaths[i]
                  low == EmittedEntries[i][1]
                  col == EmittedEntries[i][2]
              IN  /\ simplices[low - V + 1] \in pair.birthEdges
                  /\ \A e \in pair.birthEdges :
                        Len(e) = 2 /\ IndexOf(e) <= low - V
                  /\ simplices[col + 1] \in pair.deathTriangles
                  /\ \A t \in pair.deathTriangles :
                        Len(t) = 3 /\ IndexOf(t) <= col
                  /\ pair.filtrationLevels[1]
                        = SetMax({ EdgeDistance(vertices, e) : e \in pair.birthEdges })
                  /\ pair.filtrationLevels[2]
                        = SetMax({ TriangleDistance(vertices, t) :
                                     t \in pair.deathTriangles })

\* a pair was emitted whose witnesses are more than the two simplices that
\* carry its values
C28_Witness ==
    /\ mode = "worker"
    /\ variant = "details"
    /\ pc = "raster"
    /\ \E i \in 1..Len(birthsAndDeaths) :
          /\ Cardinality(birthsAndDeaths[i].birthEdges) = 4
          /\ Cardinality(birthsAndDeaths[i].deathTriangles) = 2
          /\ \E t \in birthsAndDeaths[i].deathTriangles :
                IndexOf(t) < EmittedEntries[i][2]

(***************************************************************************)
(* PersistentHomologyEditor: the editor of the points and of the           *)
(* rectangles they are sampled from.  drag is Null or the record           *)
(* [initialOffsetFromCanvasCenter, currentOffsetFromCanvasCenter, object], *)
(* object being Null, [type, index, offsetFromCenter] for a vertex or a    *)
(* shape, or [type, shapeIndex, anchorIndex, offsetFromCenter] for an      *)
(* anchor.  An exception thrown by a handler is kept in error.             *)
(***************************************************************************)
MaxPoints == 2     \* points of the point editor
MaxShapes == 1     \* rectangles of the point editor

\* const VERTEX_RADIUS = 10 of PersistentHomologyEditor
PHE_VERTEX_RADIUS == 10

\* the places of the canvas the mouse is pressed, moved to and released at
PointPositions == { << 10 * PHE_VERTEX_RADIUS * k, 0 >> : k \in 0..MaxPoints }

\* the canvas holds the place
InCanvas(p) == p[1] \in 0..(10 * PHE_VERTEX_RADIUS * MaxPoints)

\* vertices.length - 1 - [...vertices].reverse().findIndex(...): the last
\* vertex under the mouse, vertices.length if there is none
PHE_vertexIndex(vs, offset) ==
    LET hit == { i \in 1..Len(vs) :
                   Pow2(vs[i][1] - offset[1]) + Pow2(vs[i][2] - offset[2])
                       < Pow2(PHE_VERTEX_RADIUS) }
    IN  IF hit = {} THEN Len(vs) ELSE SetMax(hit) - 1

\* the rectangle holds the place
Holds(rectangle, offset) ==
    /\ (IF rectangle[1][1] <= rectangle[2][1] THEN rectangle[1][1] ELSE rectangle[2][1])
          <= offset[1]
    /\ offset[1] <= Max2(rectangle[1][1], rectangle[2][1])
    /\ (IF rectangle[1][2] <= rectangle[2][2] THEN rectangle[1][2] ELSE rectangle[2][2])
          <= offset[2]
    /\ offset[2] <= Max2(rectangle[1][2], rectangle[2][2])

\* rectangles.length - 1 - [...rectangles].reverse().findIndex(...)
PHE_rectangleIndex(rs, offset) ==
    LET hit == { i \in 1..Len(rs) : Holds(rs[i], offset) }
    IN  IF hit = {} THEN Len(rs) ELSE SetMax(hit) - 1

\* the anchors of the rectangle under the mouse, anchorIndex 0 or 1
AnchorsAt(rectangle, offset) ==
    { i \in { 0, 1 } :
        Pow2(rectangle[i + 1][1] - offset[1]) + Pow2(rectangle[i + 1][2] - offset[2])
            <= 100 }

\* the point editor is shown and handles events
EditingPoints == mode = "points" /\ pc = "editor"

\* what no handler of the point editor touches
pointsEngineVars ==
    << variant, complex, filtration, columns, simplices, facets, lastIndex,
       emptyBoundary, columnIndex, lows, cancels, pass, saved, dim, groups,
       birthsAndDeaths, maxPersistence, imageRow, persistenceImage, divByZero,
       simplexTree, selectedVertices >>

\* setDrag({ initialOffsetFromCanvasCenter, currentOffsetFromCanvasCenter, object })
DragOf(offset, object) ==
    [ initialOffsetFromCanvasCenter |-> offset,
      currentOffsetFromCanvasCenter |-> offset,
      object |-> object ]

\* mouseDownCanvas of PersistentHomologyEditor, e.button === 0
PHE_mouseDownCanvas(offsetFromCanvasCenter) ==
    /\ EditingPoints
    /\ IF editor = "vertex"
       THEN LET vertexIndex == PHE_vertexIndex(vertices, offsetFromCanvasCenter)
            IN  /\ IF vertexIndex < Len(vertices)
                   THEN /\ drag' = DragOf(offsetFromCanvasCenter,
                                     [ type |-> "vertex",
                                       index |-> vertexIndex,
                                       offsetFromCenter |->
                                         << offsetFromCanvasCenter[1] - vertices[vertexIndex + 1][1],
                                            offsetFromCanvasCenter[2] - vertices[vertexIndex + 1][2] >> ])
                        /\ selectedObject' = [ type |-> "vertex", index |-> vertexIndex ]
                   ELSE /\ drag' = DragOf(offsetFromCanvasCenter, Null)
                        /\ selectedObject' = Null
                /\ error' = error
       ELSE IF /\ selectedObject # Null
               /\ selectedObject.type = "shape"
               /\ selectedObject.index >= Len(rectangles)
            THEN /\ error' = "TypeError"
                 /\ UNCHANGED << drag, selectedObject >>
            ELSE LET anchors == IF selectedObject # Null /\ selectedObject.type = "shape"
                                THEN AnchorsAt(rectangles[selectedObject.index + 1],
                                               offsetFromCanvasCenter)
                                ELSE {}
                     rectangleIndex == PHE_rectangleIndex(rectangles, offsetFromCanvasCenter)
                 IN  /\ error' = error
                     /\ IF anchors # {}
                        THEN LET i == SetMax(anchors)
                                 anchor == rectangles[selectedObject.index + 1][i + 1]
                             IN  /\ drag' = DragOf(offsetFromCanvasCenter,
                                              [ type |-> "anchor",
                                                shapeIndex |-> selectedObject.index,
                                                anchorIndex |-> i,
                                                offsetFromCenter |->
                                                  << offsetFromCanvasCenter[1] - anchor[1],
                                                     offsetFromCanvasCenter[2] - anchor[2] >> ])
                                 /\ selectedObject' = selectedObject
                        ELSE IF rectangleIndex < Len(rectangles)
                        THEN LET r == rectangles[rectangleIndex + 1]
                             IN  /\ drag' = DragOf(offsetFromCanvasCenter,
                                              [ type |-> "shape",
                                                index |-> rectangleIndex,
                                                offsetFromCenter |->
                                                  << offsetFromCanvasCenter[1]
                                                        - (r[1][1] + r[2][1]) \div 2,
                                                     offsetFromCanvasCenter[2]
                                                        - (r[1][2] + r[2][2]) \div 2 >> ])
                                 /\ selectedObject' = [ type |-> "shape",
                                                        index |-> rectangleIndex ]
                        ELSE /\ drag' = DragOf(offsetFromCanvasCenter, Null)
                             /\ selectedObject' = Null
    /\ UNCHANGED << mode, pc, vertices, editor, rectangles, pointsEngineVars >>

\* the rectangle with its anchor anchorIndex put under the mouse
AnchorMoved(rectangle, object, offsetFromCanvasCenter) ==
    LET moved == << offsetFromCanvasCenter[1] - object.offsetFromCenter[1],
                    offsetFromCanvasCenter[2] - object.offsetFromCenter[2] >>
    IN  IF object.anchorIndex = 0 THEN << moved, rectangle[2] >>
                                  ELSE << rectangle[1], moved >>

\* the rectangle with its centre put under the mouse
ShapeMoved(rectangle, object, offsetFromCanvasCenter) ==
    << << offsetFromCanvasCenter[1] - object.offsetFromCenter[1]
             + (rectangle[1][1] - rectangle[2][1]) \div 2,
          offsetFromCanvasCenter[2] - object.offsetFromCenter[2]
             + (rectangle[1][2] - rectangle[2][2]) \div 2 >>,
       << offsetFromCanvasCenter[1] - object.offsetFromCenter[1]
             + (rectangle[2][1] - rectangle[1][1]) \div 2,
          offsetFromCanvasCenter[2] - object.offsetFromCenter[2]
             + (rectangle[2][2] - rectangle[1][2]) \div 2 >> >>

\* if (drag.object) { ... } of mouseMoveWindow and of mouseUpWindow: the
\* dragged object is written at drag.object.index; thrown is TRUE when
\* rectangles[index] is undefined and its corner is read
MoveObject(offsetFromCanvasCenter, thrown) ==
    LET object == drag.object
    IN  IF object.type = "vertex"
        THEN /\ thrown = FALSE
             /\ vertices' = With(vertices, object.index,
                                 << offsetFromCanvasCenter[1] - object.offsetFromCenter[1],
                                    offsetFromCanvasCenter[2] - object.offsetFromCenter[2] >>)
             /\ rectangles' = rectangles
        ELSE LET index == IF object.type = "anchor" THEN object.shapeIndex ELSE object.index
             IN  IF index >= Len(rectangles)
                 THEN /\ thrown = TRUE
                      /\ UNCHANGED << vertices, rectangles >>
                 ELSE LET newRectangle ==
                            IF object.type = "anchor"
                            THEN AnchorMoved(rectangles[index + 1], object,
                                             offsetFromCanvasCenter)
                            ELSE ShapeMoved(rectangles[index + 1], object,
                                            offsetFromCanvasCenter)
                      IN  /\ thrown = FALSE
                          /\ InCanvas(newRectangle[1])
                          /\ InCanvas(newRectangle[2])
                          /\ rectangles' = With(rectangles, index, newRectangle)
                          /\ vertices' = vertices

\* mouseMoveWindow of PersistentHomologyEditor
PHE_mouseMoveWindow(offsetFromCanvasCenter) ==
    /\ EditingPoints
    /\ drag # Null
    /\ \E thrown \in BOOLEAN :
          /\ IF drag.object # Null
             THEN MoveObject(offsetFromCanvasCenter, thrown)
             ELSE thrown = FALSE /\ UNCHANGED << vertices, rectangles >>
          /\ IF thrown
             THEN error' = "TypeError" /\ drag' = drag
             ELSE /\ error' = error
                  /\ drag' = [ drag EXCEPT
                                 !.currentOffsetFromCanvasCenter = offsetFromCanvasCenter ]
    /\ UNCHANGED << mode, pc, editor, selectedObject, pointsEngineVars >>

\* mouseUpWindow of PersistentHomologyEditor, e.button === 0
PHE_mouseUpWindow(offsetFromCanvasCenter) ==
    /\ EditingPoints
    /\ drag # Null
    /\ LET moved == Pow2(drag.initialOffsetFromCanvasCenter[1] - offsetFromCanvasCenter[1])
                      + Pow2(drag.initialOffsetFromCanvasCenter[2] - offsetFromCanvasCenter[2])
       IN  \E thrown \in BOOLEAN :
              /\ IF drag.object # Null
                 THEN /\ MoveObject(offsetFromCanvasCenter, thrown)
                      /\ selectedObject' = selectedObject
                 ELSE /\ thrown = FALSE
                      /\ IF editor = "vertex"
                         THEN IF moved <= 25
                              THEN /\ Len(vertices) < MaxPoints
                                   /\ selectedObject' = [ type |-> "vertex",
                                                          index |-> Len(vertices) ]
                                   /\ vertices' = Append(vertices, offsetFromCanvasCenter)
                                   /\ rectangles' = rectangles
                              ELSE UNCHANGED << vertices, rectangles, selectedObject >>
                         ELSE IF moved >= 25
                              THEN /\ Len(rectangles) < MaxShapes
                                   /\ selectedObject' = [ type |-> "shape",
                                                          index |-> Len(rectangles) ]
                                   /\ rectangles' =
                                        Append(rectangles,
                                               << drag.initialOffsetFromCanvasCenter,
                                                  offsetFromCanvasCenter >>)
                                   /\ vertices' = vertices
                              ELSE UNCHANGED << vertices, rectangles, selectedObject >>
              /\ IF thrown
                 THEN error' = "TypeError" /\ drag' = drag
                 ELSE error' = error /\ drag' = Null
    /\ UNCHANGED << mode, pc, editor, pointsEngineVars >>

\* windowKeyDown, e.key === 'Delete'
windowKeyDown ==
    /\ EditingPoints
    /\ selectedObject # Null
    /\ IF selectedObject.type = "shape"
       THEN /\ rectangles' = Without(rectangles, selectedObject.index)
            /\ vertices' = vertices
       ELSE /\ vertices' = Without(vertices, selectedObject.index)
            /\ rectangles' = rectangles
    /\ selectedObject' = Null
    /\ UNCHANGED << mode, pc, editor, drag, error, pointsEngineVars >>

\* the buttons 'Shape editor' and 'Vertex editor'
SetEditor(e) ==
    /\ EditingPoints
    /\ editor # e
    /\ editor' = e
    /\ UNCHANGED << mode, pc, vertices, rectangles, drag, selectedObject, error,
                    pointsEngineVars >>

\* the button 'Sample random points': the points Math.random gives are some
\* places of the rectangles
SampleRandomPoints ==
    /\ EditingPoints
    /\ editor = "shape"
    /\ Len(rectangles) > 0
    /\ drag' = Null
    /\ selectedObject' = Null
    /\ vertices' \in SeqsUpTo({ p \in PointPositions :
                                  \E i \in 1..Len(rectangles) : Holds(rectangles[i], p) },
                              MaxPoints)
    /\ editor' = "vertex"
    /\ UNCHANGED << mode, pc, rectangles, error, pointsEngineVars >>

\* the point editor as PersistentHomology mounts it: no point, no rectangle
InitPoints ==
    /\ mode = "points"
    /\ variant = "details"
    /\ vertices = << >>
    /\ complex = {}
    /\ pc = "editor"
    /\ InitCommon

\* every handler of the point editor, in any order
NextPoints ==
    \/ \E offset \in PointPositions : PHE_mouseDownCanvas(offset)
    \/ \E offset \in PointPositions : PHE_mouseMoveWindow(offset)
    \/ \E offset \in PointPositions : PHE_mouseUpWindow(offset)
    \/ windowKeyDown
    \/ \E e \in { "shape", "vertex" } : SetEditor(e)
    \/ SampleRandomPoints

SpecPoints == InitPoints /\ [][NextPoints]_vars

\* C29 - Drag target validity in the persistent-homology editor: under every
\* interleaving of mouse-down, mouse-move, mouse-up, Delete key, editor switch
\* and 'Sample random points' events, whenever drag.object is non-null its
\* index (or shapeIndex) is a valid index into vertices (type vertex) or
\* rectangles (types shape and anchor) at the moment a mouse-move or mouse-up
\* handler uses it, so a move never writes a vertex at a deleted position and
\* never reads an undefined rectangle.
C29_DragTargetValid ==
    mode = "points" =>
        /\ (drag # Null /\ drag.object # Null) =>
              IF drag.object.type = "vertex"
              THEN drag.object.index \in 0..(Len(vertices) - 1)
              ELSE IF drag.object.type = "shape"
              THEN drag.object.index \in 0..(Len(rectangles) - 1)
              ELSE drag.object.shapeIndex \in 0..(Len(rectangles) - 1)
        /\ error = "none"

====
